---- MODULE Spec2Model ----
(***************************************************************************)
(* A model of WrightTools' chunked Dataset (WrightTools/_dataset.py) and   *)
(* of the reshape operations of the legacy Data class (data.py).           *)
(*                                                                         *)
(* Arrays are functions from index tuples (0-based, as in numpy) to        *)
(* values.  A value is an integer or NaN.  Python's None and numpy's NaN   *)
(* are encoded as integers outside the range of array values.              *)
(***************************************************************************)
EXTENDS Integers, Sequences, FiniteSets, TLC

\* ---------------------------------------------------------------- bounds

\* Largest number of elements of a modelled Dataset.
MaxCells == 3

\* Array elements of the Dataset are integers in -MaxVal..MaxVal, or NaN.
MaxVal == 2

\* Longest dimension of a shape handed to slices() on its own.
MaxDim == 4

\* Most points of an axis of a Data object.
MaxPoints == 6

\* Most points of the second axis of a Data object of two axes.
MaxOther == 2

\* Largest spacing of the points of an axis.
MaxStep == 2

\* Largest position handed to Data.split.
MaxPosition == 5

\* The number of points of the axis that is split at three positions.
MaxLong == 10

\* Most axes of a Data object that is chopped, and most points of each.
MaxChopRank == 2

MaxChopPoints == 2

\* The longest axis of an object that is collapsed or transposed.
MaxCollapsePoints == 3

\* The longest axis of an object that is mapped or flipped.
MaxMapPoints == 3

\* Most calls of flip and map_axis on one object.
MaxCalls == 2

\* The most calls of revert on one object.
MaxReverts == 2

\* ------------------------------------------------------ encoded constants

\* Python's None (slice(None, s), clip(min=None, max=None), floor=None).
None == -1000

\* numpy.nan
NaN == 1000

\* The 'value' replace mode of Dataset.clip.
ReplaceValue == 2000

\* numpy.e, the default base of Dataset.log (no integer is a power of e
\* but 1).
BaseE == 0

\* h5py's Dataset.chunks of a dataset stored without chunking (None).
NoChunks == <<>>

\* ------------------------------------------------------- generic helpers

Min2(a, b) == IF a < b THEN a ELSE b

Max2(a, b) == IF a > b THEN a ELSE b

RECURSIVE Product(_)
Product(dims) ==
    IF dims = <<>> THEN 1 ELSE Head(dims) * Product(Tail(dims))

\* numpy.ndindex(dims): every index tuple of dims, in C order.
RECURSIVE ndindex(_)
ndindex(dims) ==
    IF dims = <<>> THEN << <<>> >>
    ELSE LET rest == ndindex(Tail(dims))
             n == Len(rest)
         IN  [k \in 1..(Head(dims) * n) |->
                 <<(k - 1) \div n>> \o rest[((k - 1) % n) + 1]]

\* The set of index tuples of an array of the given shape.
IndexSet(shape) == {ndindex(shape)[k] : k \in 1..Product(shape)}

\* ------------------------------------------------------------ Dataset.slices

\* A slip: the number of chunks rounded down, so that a last, shorter chunk
\* is not counted.
CeilDivRoundedDown(s, c) == s \div c

\* -(-s // c): ceiling division, as Python computes it.
CeilDiv(s, c) == -((-s) \div c)

\* A slip: every chunk reaches one element into the next chunk.
ChunkStopOverlapping(i, c, s) == Min2(i * c + c + 1, s + 1)

\* The stop of chunk i along a dimension of length s chunked by c.
ChunkStop(i, c, s) == Min2(i * c + c, s + 1)

\* The start of chunk i along a dimension chunked by c.
ChunkStart(i, c) == i * c

\* The number of chunks along every dimension.
ceilings(shape, chunks) ==
    [d \in 1..Len(shape) |-> CeilDiv(shape[d], chunks[d])]

\* The slice tuples slices() yields, in the order it yields them.
slices(shape, chunks) ==
    IF chunks = NoChunks
    THEN << [d \in 1..Len(shape) |->
                [start |-> None, stop |-> shape[d], step |-> None]] >>
    ELSE LET idxs == ndindex(ceilings(shape, chunks))
         IN  [k \in 1..Len(idxs) |->
                 [d \in 1..Len(shape) |->
                     [start |-> ChunkStart(idxs[k][d], chunks[d]),
                      stop  |-> ChunkStop(idxs[k][d], chunks[d], shape[d]),
                      step  |-> 1]]]

\* slice.indices(n): the first index and the index after the last one that a
\* slice selects from a dimension of length n (numpy and h5py clip a slice
\* to the dimension's length).
SliceLo(sl, n) == IF sl.start = None THEN 0 ELSE Min2(sl.start, n)

SliceHi(sl, n) == IF sl.stop = None THEN n ELSE Min2(sl.stop, n)

\* The index tuples of an array of the given shape that a slice tuple selects.
Selected(s, shape) ==
    {idx \in IndexSet(shape) :
        \A d \in 1..Len(shape) :
            /\ SliceLo(s[d], shape[d]) <= idx[d]
            /\ idx[d] < SliceHi(s[d], shape[d])}

\* wt_kit.valid_index(index, shape): along a dimension of length 1 a slice
\* becomes slice(None); every other entry of the index is kept.
valid_index(index, shape) ==
    [d \in 1..Len(shape) |->
        IF shape[d] = 1
        THEN [start |-> None, stop |-> None, step |-> None]
        ELSE index[d]]

\* ------------------------------------------------------------ array values

\* a + b, a - b, a * b in IEEE arithmetic: NaN propagates.
Add(a, b) == IF a = NaN \/ b = NaN THEN NaN ELSE a + b

Sub(a, b) == IF a = NaN \/ b = NaN THEN NaN ELSE a - b

Mul(a, b) == IF a = NaN \/ b = NaN THEN NaN ELSE a * b

Abs(a) == IF a < 0 THEN -a ELSE a

Sign(a) == IF a < 0 THEN -1 ELSE IF a > 0 THEN 1 ELSE 0

\* a / b; 0 / 0 is NaN.  Used where the quotient is an integer.
Div(a, b) ==
    IF a = NaN \/ b = NaN THEN NaN
    ELSE IF b = 0 THEN NaN
    ELSE Sign(a) * Sign(b) * (Abs(a) \div Abs(b))

\* a ** b; numpy gives 1 for x ** 0 and for 1 ** x even when x is NaN.
Pow(a, b) ==
    IF b = 0 \/ a = 1 THEN 1
    ELSE IF a = NaN \/ b = NaN THEN NaN
    ELSE a ^ b

\* The in-place operators of Dataset.
BinOps == {"iadd", "isub", "imul", "itruediv", "ipow"}

Apply(o, a, b) ==
    CASE o = "iadd" -> Add(a, b)
      [] o = "isub" -> Sub(a, b)
      [] o = "imul" -> Mul(a, b)
      [] o = "itruediv" -> Div(a, b)
      [] o = "ipow" -> Pow(a, b)

\* Whether a (o) b is a float this model holds exactly: a quotient must be an
\* integer (x / 0 is an infinity unless x is 0), an exponent non-negative.
Exact(o, a, b) ==
    \/ a = NaN
    \/ b = NaN
    \/ CASE o = "itruediv" -> IF b = 0 THEN a = 0 ELSE Abs(a) % Abs(b) = 0
         [] o = "ipow" -> b >= 0 \/ a = 1
         [] OTHER -> TRUE

\* The integer k with base ^ k = x, for x a power of base (k < 0: x is none).
RECURSIVE ExactLog(_, _)
ExactLog(x, base) ==
    IF x = 1 THEN 0
    ELSE IF base = BaseE THEN -1
    ELSE IF x < base \/ x % base # 0 THEN -1
    ELSE LET k == ExactLog(x \div base, base)
         IN  IF k < 0 THEN -1 ELSE k + 1

\* Whether the logarithm of x is a float this model holds exactly.  The
\* logarithm of 0 is -inf, which a floor replaces.
LogExact(x, base, floor) ==
    \/ x = NaN
    \/ x < 0
    \/ x = 0 /\ floor # None
    \/ x > 0 /\ ExactLog(x, base) >= 0

\* arr = log(arr) in the given base; arr[arr < floor] = floor.
LogElem(x, base, floor) ==
    IF x = NaN \/ x < 0 THEN NaN
    ELSE IF x = 0 THEN floor
    ELSE LET k == ExactLog(x, base)
         IN  IF floor # None /\ k < floor THEN floor ELSE k

\* The integer r >= 0 with r ^ root = x, or -1 when there is none.
ExactRoot(x, root) ==
    IF \E r \in 0..x : r ^ root = x
    THEN CHOOSE r \in 0..x : r ^ root = x
    ELSE -1

\* sign(x) * abs(x) ** (1 / root)
RootElem(x, root) ==
    IF x = NaN THEN NaN ELSE Sign(x) * ExactRoot(Abs(x), root)

RootExact(x, root) == x = NaN \/ ExactRoot(Abs(x), root) >= 0

\* One element of Dataset.clip: numpy.clip(arr, min, max) when replace is
\* 'value' (a NaN element or bound gives NaN); otherwise the elements below
\* min, then those above max, are assigned replace.
ClipElem(x, lo, hi, replace) ==
    IF replace = ReplaceValue
    THEN IF x = NaN \/ lo = NaN \/ hi = NaN THEN NaN
         ELSE Min2(Max2(x, lo), hi)
    ELSE LET y == IF x # NaN /\ lo # NaN /\ x < lo THEN replace ELSE x
         IN  IF y # NaN /\ hi # NaN /\ y > hi THEN replace ELSE y

\* numpy.nanmax and numpy.nanmin of a set of elements: NaN when all are NaN.
nanmax(vals) ==
    LET nums == vals \ {NaN}
    IN  IF nums = {} THEN NaN
        ELSE CHOOSE m \in nums : \A v \in nums : v <= m

nanmin(vals) ==
    LET nums == vals \ {NaN}
    IN  IF nums = {} THEN NaN
        ELSE CHOOSE m \in nums : \A v \in nums : m <= v

\* Python's a > b and a < b on floats: every comparison with NaN is false.
Gt(a, b) == a # NaN /\ b # NaN /\ a > b

Lt(a, b) == a # NaN /\ b # NaN /\ a < b

\* Python's builtin max and min of a non-empty list: the first element is
\* kept until a later one compares greater (resp. less).
RECURSIVE PyMaxFrom(_, _)
PyMaxFrom(m, rest) ==
    IF rest = <<>> THEN m
    ELSE PyMaxFrom(IF Gt(Head(rest), m) THEN Head(rest) ELSE m, Tail(rest))

PyMax(vals) == PyMaxFrom(Head(vals), Tail(vals))

RECURSIVE PyMinFrom(_, _)
PyMinFrom(m, rest) ==
    IF rest = <<>> THEN m
    ELSE PyMinFrom(IF Lt(Head(rest), m) THEN Head(rest) ELSE m, Tail(rest))

PyMin(vals) == PyMinFrom(Head(vals), Tail(vals))

\* ------------------------------------------------- reading and writing

\* The lower corner of the region a slice tuple selects.
Corner(s, shape) == [d \in 1..Len(shape) |-> SliceLo(s[d], shape[d])]

\* The block an index selects from an array: its elements under their
\* indices within the block.
Block(a, s, shape) ==
    LET lo == Corner(s, shape)
        sel == Selected(s, shape)
    IN  [i \in {[d \in 1..Len(shape) |-> idx[d] - lo[d]] : idx \in sel} |->
            a[[d \in 1..Len(shape) |-> i[d] + lo[d]]]]

\* Dataset.__getitem__: the index is passed through valid_index.
getitem(a, s, shape) == Block(a, valid_index(s, shape), shape)

\* h5py's Dataset.__setitem__: the block is written to the selected region.
Written(a, s, shape, block) ==
    LET lo == Corner(s, shape)
        sel == Selected(s, shape)
    IN  [idx \in IndexSet(shape) |->
            IF idx \in sel
            THEN block[[d \in 1..Len(shape) |-> idx[d] - lo[d]]]
            ELSE a[idx]]

\* Dataset._clear_array_attributes_cache
ClearedCache(at) == [k \in (DOMAIN at) \ {"max", "min"} |-> at[k]]

\* ------------------------------------------------------------ the Dataset

VARIABLES
    shape,      \* Dataset.shape
    chunks,     \* Dataset.chunks (NoChunks: stored without chunking)
    arr,        \* the stored array
    attrs,      \* Dataset.attrs, the entries 'max' and 'min'
    pc,         \* "idle", "chunkwise" (inside chunkwise's loop), "returned"
    frame,      \* the method that is running, with its local variables
    func,       \* the function chunkwise is applying to every chunk
    pending,    \* the positions in slices() the loop has yet to reach
    out,        \* chunkwise's OrderedDict, as a sequence of [key, val]
    ncalls,     \* how often chunkwise's loop has called func
    pre,        \* the array when the running method was called
    result,     \* the value the method returned
    gen,        \* a running slices() generator: the dataset's shape and
                \* chunks, the position it yields next, what it has yielded
    data,       \* a Data object (data.py): axes, axis_names, constants,
                \* channels, shape
    args,       \* the arguments of the call made on the Data object
    outs,       \* the list of Data objects the call returned
    status      \* "idle", "returned", or "raised" (the call raised an error)

\* The variables that are not the Dataset's.
others == <<gen, data, args, outs, status>>

dvars == <<shape, chunks, arr, attrs, pc, frame, func, pending, out, ncalls,
           pre, result>>

\* The values of array elements.
Numbers == (-MaxVal)..MaxVal

Values == Numbers \cup {NaN}

\* The shapes of the modelled datasets: one or two dimensions.
Shapes ==
    {sh \in UNION {[1..r -> 1..MaxCells] : r \in 1..2} :
        Product(sh) <= MaxCells}

\* The chunk shapes h5py accepts for a shape: None, or one chunk length per
\* dimension, none longer than the dimension.
ChunkShapes(sh) ==
    {NoChunks} \cup
    {c \in [1..Len(sh) -> 1..MaxCells] : \A d \in 1..Len(sh) : c[d] <= sh[d]}

\* The elements a dataset starts with.
InitValues == {NaN, 1, 2}

\* The operand of an in-place operator: a number, or an array of the
\* dataset's shape holding 1, 2, ... in C order.
Scalars == {0, 2}

\* The position of an index in C order, after pos earlier ones.
RECURSIVE FlatIndex(_, _, _)
FlatIndex(idx, sh, pos) ==
    IF idx = <<>> THEN pos
    ELSE FlatIndex(Tail(idx), Tail(sh), pos * Head(sh) + Head(idx))

Ramp(sh) == [idx \in IndexSet(sh) |-> FlatIndex(idx, sh, 0) + 1]

NoFrame == [name |-> "none"]

NoFunc == [name |-> "none"]

DatasetInit ==
    /\ shape \in Shapes
    /\ chunks \in ChunkShapes(shape)
    /\ arr \in [IndexSet(shape) -> InitValues]
    /\ attrs = <<>>
    /\ pc = "idle"
    /\ frame = NoFrame
    /\ func = NoFunc
    /\ pending = {}
    /\ out = <<>>
    /\ ncalls = 0
    /\ pre = arr
    /\ result = None

\* The set of elements of a block.
Elements(block) == {block[i] : i \in DOMAIN block}

\* The block func leaves in the chunk at s (func writes dataset[s]).
NewBlock(f, a, s) ==
    LET cur == getitem(a, s, shape)
    IN  CASE f.name \in BinOps ->
               IF f.isArray
               THEN LET operand == Block(f.value, valid_index(s, shape), shape)
                    IN  [i \in DOMAIN cur |-> Apply(f.name, cur[i], operand[i])]
               ELSE [i \in DOMAIN cur |-> Apply(f.name, cur[i], f.value)]
          [] f.name = "clip" ->
               [i \in DOMAIN cur |-> ClipElem(cur[i], f.min, f.max, f.replace)]
          [] f.name = "log" ->
               [i \in DOMAIN cur |-> LogElem(cur[i], f.base, f.floor)]
          [] f.name = "symmetric_root" ->
               [i \in DOMAIN cur |-> RootElem(cur[i], f.root)]

\* Whether func writes the dataset (through Dataset.__setitem__).
Writes(f) == f.name \notin {"nanmax", "nanmin"}

\* What func returns for the chunk at s.
FuncResult(f, a, s) ==
    CASE f.name = "nanmax" -> nanmax(Elements(getitem(a, s, shape)))
      [] f.name = "nanmin" -> nanmin(Elements(getitem(a, s, shape)))
      [] OTHER -> None

\* Whether every element func computes is a float this model holds exactly.
ExactOn(f, a) ==
    \A idx \in IndexSet(shape) :
        /\ CASE f.name \in BinOps ->
                  LET b == IF f.isArray THEN f.value[idx] ELSE f.value
                  IN  Exact(f.name, a[idx], b)
             [] f.name = "log" ->
                  LogExact(a[idx], f.base, f.floor)
             [] f.name = "symmetric_root" ->
                  RootExact(a[idx], f.root)
             [] OTHER -> TRUE

\* out[key] = val on an OrderedDict: a new key goes last, a known key keeps
\* its place.
OrderedDictSet(od, key, val) ==
    IF \E k \in 1..Len(od) : od[k].key = key
    THEN [k \in 1..Len(od) |->
             IF od[k].key = key THEN [key |-> key, val |-> val] ELSE od[k]]
    ELSE Append(od, [key |-> key, val |-> val])

\* OrderedDict.values()
OrderedDictValues(od) == [k \in 1..Len(od) |-> od[k].val]

\* key = tuple(sss.start for sss in s)
ChunkKey(s) == [d \in 1..Len(s) |-> s[d].start]

\* A method is called on a dataset no method is running on.
Callable == pc = "idle"

\* chunkwise(func) is entered from the method in fr.
EnterChunkwise(fr, f) ==
    /\ pc' = "chunkwise"
    /\ frame' = fr
    /\ func' = f
    /\ pending' = 1..Len(slices(shape, chunks))
    /\ out' = <<>>
    /\ ncalls' = 0

\* The array after func has been applied to the chunk at s.
AfterChunk(f, a, s) ==
    IF Writes(f) THEN Written(a, s, shape, NewBlock(f, a, s)) ELSE a

\* One pass of chunkwise's loop: func is applied to the next slice tuple
\* that slices() yields.
ChunkStep ==
    /\ pc = "chunkwise"
    /\ pending # {}
    /\ LET k == CHOOSE k \in pending : \A j \in pending : k <= j
           s == slices(shape, chunks)[k]
       IN  /\ arr' = AfterChunk(func, arr, s)
           /\ attrs' = IF Writes(func) THEN ClearedCache(attrs) ELSE attrs
           /\ out' = OrderedDictSet(out, ChunkKey(s), FuncResult(func, arr, s))
           /\ pending' = pending \ {k}
    /\ ncalls' = ncalls + 1
    /\ UNCHANGED <<shape, chunks, pc, frame, func, pre, result>>
    /\ UNCHANGED others

\* A method returns val.
Returns(val) ==
    /\ pc' = "returned"
    /\ result' = val

\* Dataset.__setitem__ with an integer index: one element is assigned.
SetValues == {NaN, 2}

SetItem(idx, val) ==
    /\ Callable
    /\ attrs' = ClearedCache(attrs)
    /\ arr' = [arr EXCEPT ![idx] = val]
    /\ frame' = [name |-> "setitem"]
    /\ Returns(None)
    /\ UNCHANGED <<shape, chunks, func, pending, out, ncalls, pre>>
    /\ UNCHANGED others

\* __iadd__, __isub__, __imul__, __itruediv__, __ipow__ with a number or
\* with an array of the dataset's shape.
InPlace(o, value, isArray) ==
    LET f == [name |-> o, value |-> value, isArray |-> isArray]
    IN  /\ Callable
        /\ ExactOn(f, arr)
        /\ EnterChunkwise([name |-> o], f)
        /\ UNCHANGED <<shape, chunks, arr, attrs, pre, result>>
        /\ UNCHANGED others

\* log(base, floor), log10(floor) and log2(floor).
LogBase(method, base) ==
    CASE method = "log" -> base
      [] method = "log10" -> 10
      [] method = "log2" -> 2

Log(method, base, floor) ==
    LET f == [name |-> "log", base |-> LogBase(method, base), floor |-> floor]
    IN  /\ Callable
        /\ ExactOn(f, arr)
        /\ EnterChunkwise([name |-> method], f)
        /\ UNCHANGED <<shape, chunks, arr, attrs, pre, result>>
        /\ UNCHANGED others

\* symmetric_root(root)
SymmetricRoot(root) ==
    LET f == [name |-> "symmetric_root", root |-> root]
    IN  /\ Callable
        /\ ExactOn(f, arr)
        /\ EnterChunkwise([name |-> "symmetric_root"], f)
        /\ UNCHANGED <<shape, chunks, arr, attrs, pre, result>>
        /\ UNCHANGED others

\* chunkwise(f) called directly, with an f that returns the chunk's nanmax.
Chunkwise ==
    /\ Callable
    /\ EnterChunkwise([name |-> "chunkwise"], [name |-> "nanmax"])
    /\ UNCHANGED <<shape, chunks, arr, attrs, pre, result>>
    /\ UNCHANGED others

\* max() and min() with the value in the cache.
MaxCached ==
    /\ Callable
    /\ "max" \in DOMAIN attrs
    /\ frame' = [name |-> "max"]
    /\ Returns(attrs["max"])
    /\ UNCHANGED <<shape, chunks, arr, attrs, func, pending, out, ncalls, pre>>
    /\ UNCHANGED others

MinCached ==
    /\ Callable
    /\ "min" \in DOMAIN attrs
    /\ frame' = [name |-> "min"]
    /\ Returns(attrs["min"])
    /\ UNCHANGED <<shape, chunks, arr, attrs, func, pending, out, ncalls, pre>>
    /\ UNCHANGED others

\* max() and min() with no value in the cache: chunkwise computes it.
MaxCompute ==
    /\ Callable
    /\ "max" \notin DOMAIN attrs
    /\ EnterChunkwise([name |-> "max"], [name |-> "nanmax"])
    /\ UNCHANGED <<shape, chunks, arr, attrs, pre, result>>
    /\ UNCHANGED others

MinCompute ==
    /\ Callable
    /\ "min" \notin DOMAIN attrs
    /\ EnterChunkwise([name |-> "min"], [name |-> "nanmin"])
    /\ UNCHANGED <<shape, chunks, arr, attrs, pre, result>>
    /\ UNCHANGED others

\* The cache with key set to val.
WithAttr(at, key, val) ==
    [k \in (DOMAIN at) \cup {key} |-> IF k = key THEN val ELSE at[k]]

\* clip(min, max, replace): a bound given as None is self.max() (resp.
\* self.min()), looked up first; the frame holds the bounds found so far.
ClipFromCache(fr, at, key) ==
    IF fr[key] = None /\ key \in DOMAIN at
    THEN [fr EXCEPT ![key] = at[key]]
    ELSE fr

\* What clip does next with the bounds in fr and the cache at: compute max,
\* else compute min, else clip every chunk.
ClipProceed(fr, at) ==
    LET f1 == ClipFromCache(fr, at, "max")
        f2 == ClipFromCache(f1, at, "min")
    IN  IF f1.max = None
        THEN EnterChunkwise(f1, [name |-> "nanmax"])
        ELSE IF f2.min = None
        THEN EnterChunkwise(f2, [name |-> "nanmin"])
        ELSE EnterChunkwise(f2, [name |-> "clip", min |-> f2.min,
                                 max |-> f2.max, replace |-> f2.replace])

ClipMins == {None, 1}

ClipMaxs == {None, 1}

ClipReplaces == {NaN, ReplaceValue}

Clip(min, max, replace) ==
    /\ Callable
    /\ ClipProceed([name |-> "clip", min |-> min, max |-> max,
                    replace |-> replace], attrs)
    /\ UNCHANGED <<shape, chunks, arr, attrs, pre, result>>
    /\ UNCHANGED others

\* chunkwise's loop is over: the cache is cleared and chunkwise returns to
\* the method that called it.
LoopDone == pc = "chunkwise" /\ pending = {}

\* ... to max(), which stores and returns the largest of the chunks' results.
ReturnToMax ==
    /\ LoopDone
    /\ frame.name = "max"
    /\ LET m == PyMax(OrderedDictValues(out))
       IN  /\ attrs' = WithAttr(ClearedCache(attrs), "max", m)
           /\ Returns(m)
    /\ UNCHANGED <<shape, chunks, arr, frame, func, pending, out, ncalls, pre>>
    /\ UNCHANGED others

\* ... to min(), which stores and returns the smallest of the chunks' results.
ReturnToMin ==
    /\ LoopDone
    /\ frame.name = "min"
    /\ LET m == PyMin(OrderedDictValues(out))
       IN  /\ attrs' = WithAttr(ClearedCache(attrs), "min", m)
           /\ Returns(m)
    /\ UNCHANGED <<shape, chunks, arr, frame, func, pending, out, ncalls, pre>>
    /\ UNCHANGED others

\* ... to clip, inside its call of self.max(): clip goes on with the bound.
ReturnToClipMax ==
    /\ LoopDone
    /\ frame.name = "clip"
    /\ func.name = "nanmax"
    /\ LET m == PyMax(OrderedDictValues(out))
           at == WithAttr(ClearedCache(attrs), "max", m)
       IN  /\ attrs' = at
           /\ ClipProceed([frame EXCEPT !.max = m], at)
    /\ UNCHANGED <<shape, chunks, arr, pre, result>>
    /\ UNCHANGED others

\* ... to clip, inside its call of self.min().
ReturnToClipMin ==
    /\ LoopDone
    /\ frame.name = "clip"
    /\ func.name = "nanmin"
    /\ LET m == PyMin(OrderedDictValues(out))
           at == WithAttr(ClearedCache(attrs), "min", m)
       IN  /\ attrs' = at
           /\ ClipProceed([frame EXCEPT !.min = m], at)
    /\ UNCHANGED <<shape, chunks, arr, pre, result>>
    /\ UNCHANGED others

\* ... to a method that wrote every chunk, or to chunkwise's own caller.
ReturnToWriter ==
    /\ LoopDone
    /\ frame.name \notin {"max", "min"}
    /\ frame.name = "clip" => func.name = "clip"
    /\ attrs' = ClearedCache(attrs)
    /\ Returns(None)
    /\ UNCHANGED <<shape, chunks, arr, frame, func, pending, out, ncalls, pre>>
    /\ UNCHANGED others

\* The caller has the returned value; the dataset waits for the next call.
Idle ==
    /\ pc = "returned"
    /\ pc' = "idle"
    /\ frame' = NoFrame
    /\ func' = NoFunc
    /\ pending' = {}
    /\ out' = <<>>
    /\ ncalls' = 0
    /\ pre' = arr
    /\ result' = None
    /\ UNCHANGED <<shape, chunks, arr, attrs>>
    /\ UNCHANGED others

\* Whether an in-place operator leaves every element within the range of
\* values of the modelled dataset.
InRange(o, value, isArray) ==
    /\ Callable
    /\ \A idx \in IndexSet(shape) :
           Apply(o, arr[idx], IF isArray THEN value[idx] ELSE value) \in Values

DatasetNext ==
    \/ \E idx \in IndexSet(shape), val \in SetValues : SetItem(idx, val)
    \/ \E o \in BinOps, value \in Scalars :
           InRange(o, value, FALSE) /\ InPlace(o, value, FALSE)
    \/ \E o \in BinOps :
           InRange(o, Ramp(shape), TRUE) /\ InPlace(o, Ramp(shape), TRUE)
    \/ \E floor \in {None, 1} : Log("log", BaseE, floor)
    \/ \E floor \in {None, 1} : Log("log10", 10, floor)
    \/ \E floor \in {None, 1} : Log("log2", 2, floor)
    \/ SymmetricRoot(2)
    \/ Chunkwise
    \/ MaxCached
    \/ MinCached
    \/ MaxCompute
    \/ MinCompute
    \/ \E min \in ClipMins, max \in ClipMaxs, replace \in ClipReplaces :
           Clip(min, max, replace)
    \/ ChunkStep
    \/ ReturnToMax
    \/ ReturnToMin
    \/ ReturnToClipMax
    \/ ReturnToClipMin
    \/ ReturnToWriter
    \/ Idle

\* ------------------------------------------------- slices() as a generator

GenShapes == UNION {[1..r -> 1..MaxDim] : r \in 1..2}

GenChunkShapes(sh) ==
    {NoChunks} \cup
    {c \in [1..Len(sh) -> 1..MaxDim] : \A d \in 1..Len(sh) : c[d] <= sh[d]}

GenInit ==
    \E sh \in GenShapes : \E c \in GenChunkShapes(sh) :
        gen = [shape |-> sh, chunks |-> c, next |-> 1, yielded |-> <<>>]

\* next() on the generator: the next slice tuple is yielded.
SlicesYield ==
    /\ gen.next <= Len(slices(gen.shape, gen.chunks))
    /\ gen' = [gen EXCEPT
                  !.next = @ + 1,
                  !.yielded = Append(@, slices(gen.shape, gen.chunks)[gen.next])]
    /\ UNCHANGED dvars
    /\ UNCHANGED <<data, args, outs, status>>

\* The generator has yielded its last slice tuple.
Exhausted == gen.next > Len(slices(gen.shape, gen.chunks))

\* No generator is running.
GenAtRest ==
    gen = [shape |-> <<1>>, chunks |-> NoChunks, next |-> 1, yielded |-> <<>>]

\* A dataset of one element on which no method is called.
DatasetAtRest ==
    /\ shape = <<1>>
    /\ chunks = NoChunks
    /\ arr = [idx \in IndexSet(<<1>>) |-> 0]
    /\ attrs = <<>>
    /\ pc = "idle"
    /\ frame = NoFrame
    /\ func = NoFunc
    /\ pending = {}
    /\ out = <<>>
    /\ ncalls = 0
    /\ pre = arr
    /\ result = None

\* ---------------------------------------------------------- data.py: Data

\* Python's seq[start:stop]: a negative bound counts from the end, and both
\* bounds are clipped to the sequence.
PyBound(x, n) == IF x < 0 THEN Max2(x + n, 0) ELSE Min2(x, n)

PySlice(seq, start, stop) ==
    LET lo == PyBound(start, Len(seq))
        hi == PyBound(stop, Len(seq))
    IN  IF hi <= lo THEN <<>> ELSE SubSeq(seq, lo + 1, hi)

\* values[start:stop] on a numpy array (a record of shape and elems): the
\* slice is taken along the first dimension.
ArraySlice(values, start, stop) ==
    LET n == values.shape[1]
        lo == PyBound(start, n)
        hi == PyBound(stop, n)
        newshape == <<Max2(hi - lo, 0)>> \o Tail(values.shape)
    IN  [shape |-> newshape,
         elems |-> [idx \in IndexSet(newshape) |->
                       values.elems[<<idx[1] + lo>> \o Tail(idx)]]]

\* numpy.transpose(values, axes=axes): dimension k of the result is
\* dimension axes[k] of values (axes counts from 0).
np_transpose(values, axes) ==
    LET n == Len(axes)
        newshape == [k \in 1..n |-> values.shape[axes[k] + 1]]
        from(j) == CHOOSE k \in 1..n : axes[k] + 1 = j
    IN  [shape |-> newshape,
         elems |-> [idx \in IndexSet(newshape) |->
                       values.elems[[j \in 1..n |-> idx[from(j)]]]]]

\* values.shape = newshape: the elements keep their C order.
Reshaped(values, newshape) ==
    [shape |-> newshape,
     elems |-> [idx \in IndexSet(newshape) |->
                   values.elems[ndindex(values.shape)[
                       FlatIndex(idx, newshape, 0) + 1]]]]

\* numpy.argmin: the first index (from 0) of the smallest element.
argmin(seq) ==
    CHOOSE i \in 0..(Len(seq) - 1) :
        /\ \A j \in 0..(Len(seq) - 1) : seq[i + 1] <= seq[j + 1]
        /\ \A j \in 0..(i - 1) : seq[j + 1] > seq[i + 1]

\* list.pop(i) (i counts from 0): the list that is left.
Popped(seq, i) == SubSeq(seq, 1, i) \o SubSeq(seq, i + 2, Len(seq))

\* The elements of a sequence.
Range(seq) == {seq[k] : k \in 1..Len(seq)}

\* set(indicies) in CPython: the hash table of a set of up to five keys has
\* eight slots (slot None: empty); the hash of a non-negative int is the
\* int; a key goes to slot hash & 7 or, when another key is there, to the
\* next free slot of the probe sequence i = 5 * i + perturb + 1,
\* perturb >>= 5.
EmptySetTable == [slot \in 0..7 |-> None]

RECURSIVE SetTableAdd(_, _, _, _)
SetTableAdd(table, key, i, perturb) ==
    IF table[i % 8] = None THEN [table EXCEPT ![i % 8] = key]
    ELSE IF table[i % 8] = key THEN table
    ELSE SetTableAdd(table, key, 5 * i + perturb + 1, perturb \div 32)

RECURSIVE SetTableOf(_)
SetTableOf(seq) ==
    IF seq = <<>> THEN EmptySetTable
    ELSE LET key == seq[Len(seq)]
         IN  SetTableAdd(SetTableOf(SubSeq(seq, 1, Len(seq) - 1)),
                         key, key % 8, key)

\* list(set(indicies)): the keys in the order of their slots.
ListOfSet(seq) ==
    LET table == SetTableOf(seq)
        slots == SelectSeq([k \in 1..8 |-> k - 1],
                           LAMBDA slot : table[slot] # None)
    IN  [k \in 1..Len(slots) |-> table[slots[k]]]

\* Data.transpose(axes)
transpose(d, axes) ==
    LET chs == [c \in 1..Len(d.channels) |->
                   [d.channels[c] EXCEPT !.values = np_transpose(@, axes)]]
    IN  [d EXCEPT
            !.axes = [k \in 1..Len(axes) |-> d.axes[axes[k] + 1]],
            !.axis_names = [k \in 1..Len(axes) |-> d.axis_names[axes[k] + 1]],
            !.channels = chs,
            !.shape = chs[1].values.shape]

\* Data.split: the index of the axis, given as an int or as a str (here a
\* record with the field index, or with the field name).
AxisIndex(d, axis) ==
    IF "index" \in DOMAIN axis THEN axis.index
    ELSE (CHOOSE k \in 1..Len(d.axis_names) :
              d.axis_names[k] = axis.name) - 1

\* Data.split: the indices to split at.  The index of the nearest point to
\* each position, sorted; made unique when two are the same; each lowered by
\* one when the direction, inverted for a descending axis, is 'above'.
indicies(points, positions, direction) ==
    LET found == [p \in 1..Len(positions) |->
                     argmin([k \in 1..Len(points) |->
                                Abs(points[k] - positions[p])])]
        sorted == SortSeq(found, LAMBDA a, b : a < b)
        unique == IF Len(sorted) = Cardinality(Range(sorted))
                  THEN sorted
                  ELSE ListOfSet(sorted)
        dir == IF points[Len(points)] < points[1]
               THEN (IF direction = "above" THEN "below" ELSE "above")
               ELSE direction
    IN  IF dir = "above"
        THEN [k \in 1..Len(unique) |-> unique[k] - 1]
        ELSE unique

\* Data.split: the start and stop of every piece, from pass i of the loop
\* on, stop being the stop of the pass before.
RECURSIVE StartsAndStops(_, _, _, _)
StartsAndStops(idxs, i, stop, n) ==
    IF i > Len(idxs) THEN <<>>
    ELSE LET start == stop + 1
             newstop == IF i = Len(idxs) THEN n ELSE idxs[i + 1]
         IN  <<[start |-> start, stop |-> newstop]>>
                 \o StartsAndStops(idxs, i + 1, newstop, n)

\* Data.split: the order that exchanges the axis of interest and the first.
transpose_order(n, axis_index) ==
    [k \in 1..n |->
        IF k = 1 THEN axis_index
        ELSE IF k - 1 = axis_index THEN 0 ELSE k - 1]

\* Data.split: one piece, a copy of the data cut to points[start:stop] along
\* the axis.
Piece(d, axis_index, start, stop) ==
    LET order == transpose_order(Len(d.axes), axis_index)
        t == transpose(d, order)
        cut == [t EXCEPT
                   !.axes[1].points = PySlice(@, start, stop),
                   !.channels = [c \in 1..Len(t.channels) |->
                       [t.channels[c] EXCEPT
                           !.values = ArraySlice(@, start, stop)]]]
    IN  transpose(cut, order)

\* Data.split: a piece with one point left along the axis loses the axis to
\* its constants, and its shape every dimension of length 1.
Demoted(d, axis_index) ==
    IF Len(d.axes[axis_index + 1].points) # 1 THEN d
    ELSE LET old == d.channels[1].values.shape
             newshape == SelectSeq(old, LAMBDA i : i # 1)
         IN  [d EXCEPT
                 !.axis_names = Popped(@, axis_index),
                 !.axes = Popped(@, axis_index),
                 !.constants = Append(@, d.axes[axis_index + 1]),
                 !.channels = [c \in 1..Len(d.channels) |->
                     [d.channels[c] EXCEPT
                         !.values = Reshaped(@, newshape)]],
                 !.shape = newshape]

\* Data.split: the pieces, before the pieces of one point are dealt with.
Pieces(d, axis_index, positions, direction) ==
    LET points == d.axes[axis_index + 1].points
        idxs == indicies(points, positions, direction)
        cuts == StartsAndStops(idxs, 0, -1, Len(points))
    IN  [i \in 1..Len(cuts) |->
            Piece(d, axis_index, cuts[i].start, cuts[i].stop)]

\* wt_units.unit_dicts: the kind of a unit (None for a unit of no kind).
units_kind(units) ==
    CASE units \in {"fs", "ps"} -> "time"
      [] units \in {"nm", "wn"} -> "energy"
      [] OTHER -> "None"

\* wt_units.converter(val, current_unit, destination_unit) for the units of
\* time, 1 ps being 1000 fs, and of energy, a wavelength of x nm being
\* 10000000 / x wavenumbers (the quotients taken are whole here).
\* A slip: a time in fs left as it is when ps are asked for.
converterOneWay(val, current_unit, destination_unit) ==
    IF current_unit = "ps" /\ destination_unit = "fs" THEN val * 1000
    ELSE val

converter(val, current_unit, destination_unit) ==
    IF current_unit = destination_unit THEN val
    ELSE IF current_unit = "ps" /\ destination_unit = "fs" THEN val * 1000
    ELSE IF current_unit = "fs" /\ destination_unit = "ps" THEN val \div 1000
    ELSE IF {current_unit, destination_unit} = {"nm", "wn"}
    THEN 10000000 \div val
    ELSE val

\* A slip: no pair of units raises.
converterNeverRaises(current_unit, destination_unit) == FALSE

\* Whether wt_units.converter raises: the units are of two kinds.
converterRaises(current_unit, destination_unit) ==
    units_kind(current_unit) # units_kind(destination_unit)

\* The points of an axis: n points from 0 on, step apart, ascending or
\* descending.
AxisPoints(n, step, descending) ==
    [k \in 1..n |-> IF descending THEN (n - k) * step ELSE (k - 1) * step]

LongAxes ==
    {AxisPoints(n, step, desc) :
        n \in 1..MaxPoints, step \in 1..MaxStep, desc \in BOOLEAN}

ShortAxes == {AxisPoints(n, 1, FALSE) : n \in 1..MaxOther}

\* The shape of a Data object whose shape attribute has not been set.
Unset == <<None>>

\* Whether a sequence holds no element twice.
Unique(seq) == \A i, j \in 1..Len(seq) : seq[i] = seq[j] => i = j

\* Data._update: the names are set; then, unless a name is found twice
\* among all_names, the shape.  all_names holds the names of the axes and of
\* the channels and the constants themselves (objects, each of which is
\* equal only to itself), not the constants' names.
update(d) ==
    LET named == [d EXCEPT
            !.axis_names = [k \in 1..Len(d.axes) |-> d.axes[k].name],
            !.constant_names =
                [k \in 1..Len(d.constants) |-> d.constants[k].name],
            !.channel_names =
                [k \in 1..Len(d.channels) |-> d.channels[k].name]]
    IN  IF Unique(named.axis_names \o named.channel_names)
        THEN [named EXCEPT !.shape = d.channels[1].values.shape]
        ELSE named

\* Data.__init__(axes, channels, constants)
Data(axes, channels, constants) ==
    update([axes |-> axes, constants |-> constants, channels |-> channels,
            axis_names |-> <<>>, constant_names |-> <<>>,
            channel_names |-> <<>>, shape |-> Unset])

\* Axis.__init__(points, units, name=name)
Axis(points, units, name) ==
    [name |-> name, points |-> points, units |-> units,
     units_kind |-> units_kind(units)]

\* The elements of a numpy array.
ArrayElements(values) == {values.elems[i] : i \in DOMAIN values.elems}

\* Channel.__init__(values, units, name=name): give_values sets znull and
\* zmin to the smallest and zmax to the largest element that is not NaN.
Channel(values, name) ==
    [name |-> name, values |-> values,
     znull |-> nanmin(ArrayElements(values)),
     zmin |-> nanmin(ArrayElements(values)),
     zmax |-> nanmax(ArrayElements(values))]

\* The names of the axes of a new Data object.
AxisName(k) == IF k = 1 THEN "w1" ELSE IF k = 2 THEN "w2" ELSE "w3"

\* A Data object of one channel over axes with the given points, the
\* channel holding 1, 2, ... in C order.
NewData(pointss) ==
    LET sh == [k \in 1..Len(pointss) |-> Len(pointss[k])]
    IN  Data([k \in 1..Len(pointss) |-> Axis(pointss[k], "fs", AxisName(k))],
             <<Channel([shape |-> sh, elems |-> Ramp(sh)], "signal")>>,
             <<>>)

NoArgs == [name |-> "none"]

DataInit ==
    /\ data \in {NewData(<<l>>) : l \in LongAxes}
                \cup {NewData(<<l, s>>) : l \in LongAxes, s \in ShortAxes}
                \cup {NewData(<<s, l>>) : l \in LongAxes, s \in ShortAxes}
    /\ args = NoArgs
    /\ outs = <<>>
    /\ status = "idle"

\* The positions handed to split: one or two numbers.
Positions == 0..MaxPosition

PositionLists ==
    {<<p>> : p \in Positions} \cup {<<p, q>> : p \in Positions, q \in Positions}

\* The units handed to split: 'same', or a unit of the axis' kind.
SplitUnits == {"same", "ps"}

\* Data.split(axis, positions, units=units, direction=direction,
\* verbose=verbose); nothing in split reads units.  With verbose set, the
\* first and the last point of every piece are printed, which raises
\* IndexError on a piece without points.
Split(axis, positions, units, direction, verbose) ==
    /\ status = "idle"
    /\ LET axis_index == AxisIndex(data, axis)
           pieces == Pieces(data, axis_index, positions, direction)
       IN  /\ args' = [name |-> "split", axis_index |-> axis_index,
                       positions |-> positions, units |-> units,
                       direction |-> direction, verbose |-> verbose,
                       before |-> data]
           /\ IF verbose /\ \E i \in 1..Len(pieces) :
                                pieces[i].axes[axis_index + 1].points = <<>>
              THEN /\ status' = "raised"
                   /\ outs' = <<>>
              ELSE /\ status' = "returned"
                   /\ outs' = [i \in 1..Len(pieces) |->
                                  Demoted(pieces[i], axis_index)]
    /\ UNCHANGED data
    /\ UNCHANGED <<dvars, gen>>

\* The ways to name an axis of the data: its index or its name.
AxisArgs ==
    {[index |-> i] : i \in 0..(Len(data.axes) - 1)}
        \cup {[name |-> n] : n \in Range(data.axis_names)}

DataNext ==
    \E axis \in AxisArgs, positions \in PositionLists, units \in SplitUnits,
       direction \in {"below", "above"}, verbose \in BOOLEAN :
        Split(axis, positions, units, direction, verbose)

\* A Data object of one axis of MaxLong points, ascending or descending.
LongDataInit ==
    /\ data \in {NewData(<<AxisPoints(MaxLong, 1, desc)>>) : desc \in BOOLEAN}
    /\ args = NoArgs
    /\ outs = <<>>
    /\ status = "idle"

\* split at three positions on the axis.
PositionTriples ==
    {<<p, q, r>> : p \in 0..(MaxLong - 1), q \in 0..(MaxLong - 1),
                   r \in 0..(MaxLong - 1)}

LongDataNext ==
    \E positions \in PositionTriples, direction \in {"below", "above"},
       verbose \in BOOLEAN :
        Split([index |-> 0], positions, "same", direction, verbose)

\* ------------------------------------------------------------- Data.chop

\* values[idx] on a numpy array: the sub-array at idx of the first dimension.
ArrayAt(values, idx) ==
    [shape |-> Tail(values.shape),
     elems |-> [i \in IndexSet(Tail(values.shape)) |->
                   values.elems[<<idx>> \o i]]]

RECURSIVE ArrayAtAll(_, _)
ArrayAtAll(values, idxs) ==
    IF idxs = <<>> THEN values
    ELSE ArrayAtAll(ArrayAt(values, Head(idxs)), Tail(idxs))

\* The index (from 0) of the axis with the name.
IndexOfAxis(d, name) ==
    (CHOOSE k \in 1..Len(d.axes) : d.axes[k].name = name) - 1

\* getattr(self, name) for the name of an axis.
AxisNamed(d, name) == d.axes[IndexOfAxis(d, name) + 1]

\* Data.chop: axes_args with every int replaced by the name of the axis.
ChopNames(d, axes_args) ==
    [i \in 1..Len(axes_args) |->
        IF "index" \in DOMAIN axes_args[i]
        THEN d.axis_names[axes_args[i].index + 1]
        ELSE axes_args[i].name]

\* Data.chop: the names of the axes that are neither kept nor pinned.
iterated_dimensions(d, names, at) ==
    SelectSeq(d.axis_names,
              LAMBDA name : name \notin Range(names) /\ name \notin DOMAIN at)

\* Data.chop: chopped_constants for the pass of the loop at index: the
\* pinned positions, and for every iterated axis its point at the index.
chopped_constants(d, iterated, at, index) ==
    [name \in (DOMAIN at) \cup Range(iterated) |->
        IF name \in Range(iterated)
        THEN LET i == CHOOSE i \in 1..Len(iterated) : iterated[i] = name
                 axis == AxisNamed(d, name)
             IN  <<axis.points[index[i + 1] + 1], axis.units>>
        ELSE at[name]]

\* A slip: the pinned position is taken as it is given, whatever its units.
c_idxUnconverted(axis, pinned) ==
    argmin([k \in 1..Len(axis.points) |-> Abs(axis.points[k] - pinned[1])])

\* Data.chop: the index of the axis point nearest to a pinned position,
\* the position converted to the units of the axis.
c_idx(axis, pinned) ==
    LET val == converter(pinned[1], pinned[2], axis.units)
    IN  argmin([k \in 1..Len(axis.points) |-> Abs(axis.points[k] - val)])

\* Data.chop: the order of the dimensions in one pass of the loop: those of
\* the constants, in the order of the dict's keys, then those of the axes.
ChopOrder(d, names, keys) ==
    [k \in 1..Len(keys) |-> IndexOfAxis(d, keys[k])]
        \o [k \in 1..Len(names) |-> IndexOfAxis(d, names[k])]

\* Data.chop: whether the pass goes on to chop (otherwise chop prints that
\* it failed and returns None).
ChopKosher(d, order) ==
    /\ Len(order) = Len(d.channels[1].values.shape)
    /\ Unique(order)

\* Data.chop: the Data object of one pass of the loop.
data_out(d, names, keys, cc) ==
    LET order == ChopOrder(d, names, keys)
        constant_indicies ==
            [k \in 1..Len(keys) |-> c_idx(AxisNamed(d, keys[k]), cc[keys[k]])]
        constants ==
            d.constants
                \o [k \in 1..Len(keys) |->
                       LET axis == AxisNamed(d, keys[k])
                       IN  [axis EXCEPT
                               !.points = axis.points[constant_indicies[k] + 1]]]
        axes_chopped == [k \in 1..Len(names) |-> AxisNamed(d, names[k])]
        channels_chopped ==
            [c \in 1..Len(d.channels) |->
                [d.channels[c] EXCEPT
                    !.values = ArrayAtAll(np_transpose(@, order),
                                          constant_indicies)]]
    IN  Data(axes_chopped, channels_chopped, constants)

\* The axes a chop can name: by name or by index.
ChopAxisArgs(d) ==
    {[index |-> i] : i \in 0..(Len(d.axes) - 1)}
        \cup {[name |-> n] : n \in Range(d.axis_names)}

\* The arguments naming the axes to keep: none, one (by name or by index)
\* or two (by name).
ChopAxesArgs(d) ==
    {<<>>} \cup {<<a>> : a \in ChopAxisArgs(d)}
           \cup {<<[name |-> a], [name |-> b]>> :
                     a \in Range(d.axis_names), b \in Range(d.axis_names)}

\* The dict of pinned positions: empty, or one axis pinned at a position
\* given in fs or in ps.
ChopAts(d) ==
    {<<>>} \cup
    {[n \in {name} |-> <<position, units>>] :
        name \in Range(d.axis_names), position \in {0, 1},
        units \in {"fs", "ps"}}

\* The orders in which a dict can hold the keys.
KeyOrders(keys) ==
    {o \in [1..Cardinality(keys) -> keys] : Unique(o)}

\* Data.chop(*axes_args, at).  The loop over the dict chopped_constants
\* takes its keys in the dict's order, which is any one order.
Chop(axes_args, at) ==
    /\ status = "idle"
    /\ LET names == ChopNames(data, axes_args)
           iterated == iterated_dimensions(data, names, at)
           iterated_shape ==
               <<1>> \o [i \in 1..Len(iterated) |->
                            Len(AxisNamed(data, iterated[i]).points)]
           indexes == ndindex(iterated_shape)
       IN  \E keys \in KeyOrders((DOMAIN at) \cup Range(iterated)) :
               /\ args' = [name |-> "chop", axes_args |-> axes_args,
                           at |-> at, keys |-> keys, before |-> data]
               /\ IF ChopKosher(data, ChopOrder(data, names, keys))
                  THEN /\ status' = "returned"
                       /\ outs' = [k \in 1..Len(indexes) |->
                                      data_out(data, names, keys,
                                          chopped_constants(data, iterated,
                                                            at, indexes[k]))]
                  ELSE /\ status' = "returned None"
                       /\ outs' = <<>>
    /\ UNCHANGED data
    /\ UNCHANGED <<dvars, gen>>

\* The points of the first axis of a Data object that is chopped, and of
\* its other axes.
ChopFirstAxes ==
    {AxisPoints(n, step, desc) :
        n \in 1..MaxChopPoints, step \in {1, 1000}, desc \in BOOLEAN}

ChopOtherAxes == {AxisPoints(n, 1, FALSE) : n \in 1..MaxChopPoints}

\* The Data objects that are chopped.
ChopDataInit ==
    /\ data \in UNION {
           {NewData(pointss) :
               pointss \in {ps \in [1..rank -> ChopFirstAxes \cup ChopOtherAxes] :
                               \A k \in 2..rank : ps[k] \in ChopOtherAxes}} :
           rank \in 1..MaxChopRank}
    /\ args = NoArgs
    /\ outs = <<>>
    /\ status = "idle"

ChopNext ==
    \E axes_args \in ChopAxesArgs(data), at \in ChopAts(data) :
        Chop(axes_args, at)

\* No Data object is in use.
\* ---------------------------------------------------------- Data.collapse

RECURSIVE SeqSum(_)
SeqSum(seq) == IF seq = <<>> THEN 0 ELSE Head(seq) + SeqSum(Tail(seq))

\* The elements of an array along dimension axis, at the index idx of the
\* other dimensions.
Along(values, axis, idx) ==
    [k \in 1..values.shape[axis + 1] |->
        values.elems[SubSeq(idx, 1, axis) \o <<k - 1>>
                     \o SubSeq(idx, axis + 1, Len(idx))]]

\* Twice the sum of the trapezoids under y over x.
Trapezoids(y, x) ==
    SeqSum([k \in 1..(Len(y) - 1) |-> (x[k + 1] - x[k]) * (y[k + 1] + y[k])])

\* A slip: the rectangles under the left points instead of the trapezoids.
np_trapzRectangles(y, x) ==
    IF Len(y) >= 2 /\ NaN \in Range(y) THEN NaN
    ELSE SeqSum([k \in 1..(Len(y) - 1) |-> (x[k + 1] - x[k]) * y[k]])

\* numpy.trapz(y, x) along one dimension: NaN when a trapezoid has a NaN
\* corner.
np_trapz(y, x) ==
    IF Len(y) >= 2 /\ NaN \in Range(y) THEN NaN
    ELSE Trapezoids(y, x) \div 2

\* ndarray.sum along one dimension.
np_sum(y) == IF NaN \in Range(y) THEN NaN ELSE SeqSum(y)

\* numpy.average along one dimension.
np_average(y) == IF NaN \in Range(y) THEN NaN ELSE SeqSum(y) \div Len(y)

\* Whether the quotient a method takes along one dimension is a whole
\* number, as the numbers of the model are.
Whole(y, x, method) ==
    \/ Len(y) >= 1 /\ NaN \in Range(y)
    \/ IF method \in {"int", "integrate"} THEN Trapezoids(y, x) % 2 = 0
       ELSE IF method \in {"ave", "average"} THEN SeqSum(y) % Len(y) = 0
       ELSE TRUE

\* What a method that is recognized makes of the elements y along the
\* axis of the given points.
reduced(y, points, method) ==
    IF method \in {"int", "integrate"} THEN np_trapz(y, points)
    ELSE IF method = "sum" THEN np_sum(y)
    ELSE IF method \in {"max", "maximum"} THEN nanmax(Range(y))
    ELSE IF method \in {"min", "minimum"} THEN nanmin(Range(y))
    ELSE np_average(y)

\* The values of a channel after one pass of the loop of collapse; a method
\* that is not recognized leaves them as they are.
collapsed(values, axis_index, points, method) ==
    IF method \in {"int", "integrate", "sum", "max", "maximum", "min",
                   "minimum", "ave", "average"}
    THEN LET newshape == Popped(values.shape, axis_index)
         IN  [shape |-> newshape,
              elems |-> [idx \in IndexSet(newshape) |->
                  reduced(Along(values, axis_index, idx), points, method)]]
    ELSE values

\* Channel._update
Channel_update(channel) ==
    [channel EXCEPT !.zmin = nanmin(ArrayElements(channel.values)),
                    !.zmax = nanmax(ArrayElements(channel.values))]

\* The methods of the channels: the list given, or the one method for each.
methods(d, method) ==
    IF "list" \in DOMAIN method THEN method.list
    ELSE [c \in 1..Len(d.channels) |-> method.str]

\* The object after collapse(axis, method): every channel reduced and
\* updated, the axis popped, the names and shape updated.
collapse(d, axis_index, method) ==
    update([d EXCEPT
        !.channels = [c \in 1..Len(d.channels) |->
            Channel_update([d.channels[c] EXCEPT !.values =
                collapsed(@, axis_index, d.axes[axis_index + 1].points,
                          methods(d, method)[c])])],
        !.axes = Popped(@, axis_index)])

\* Whether the object has one axis for each dimension of each channel, of
\* as many points as the dimension is long.
WellFormed(d) ==
    \A c \in 1..Len(d.channels) :
        /\ Len(d.channels[c].values.shape) = Len(d.axes)
        /\ \A k \in 1..Len(d.axes) :
               Len(d.axes[k].points) = d.channels[c].values.shape[k]

\* Whether collapse raises before it changes anything: the axis is not
\* among the names or the dimensions, or the list of methods is not as long
\* as the list of channels, so that methods is not bound.
CollapseRaises(d, axis, method) ==
    \/ "name" \in DOMAIN axis /\ axis.name \notin Range(d.axis_names)
    \/ "index" \in DOMAIN axis /\ axis.index >= Len(d.axes)
    \/ "list" \in DOMAIN method /\ Len(method.list) # Len(d.channels)

NoPrior == [name |-> "none"]

\* The call before this one, as far as a later call is compared with it.
Prior(a) ==
    IF a.name = "transpose"
    THEN [name |-> "transpose", axes |-> a.axes, before |-> a.before]
    ELSE IF a.name = "flip"
    THEN [name |-> "flip", axis |-> a.axis, before |-> a.before]
    ELSE IF a.name = "Axis.convert"
    THEN [name |-> "Axis.convert", axis |-> a.axis, before |-> a.before]
    ELSE IF a.name = "convert"
    THEN [name |-> "convert", before |-> a.before]
    ELSE NoPrior

\* data.collapse(axis, method) on an object that has an axis left.
Collapse(axis, method) ==
    /\ status # "raised"
    /\ WellFormed(data)
    /\ Len(data.axes) >= 1
    /\ args' = [name |-> "collapse", axis |-> axis, method |-> method,
                before |-> data, prior |-> Prior(args)]
    /\ IF CollapseRaises(data, axis, method)
       THEN /\ status' = "raised"
            /\ data' = data
       ELSE LET axis_index == AxisIndex(data, axis)
                points == data.axes[axis_index + 1].points
            IN  /\ \A c \in 1..Len(data.channels) :
                       LET values == data.channels[c].values
                       IN  \A idx \in IndexSet(Popped(values.shape, axis_index)) :
                               Whole(Along(values, axis_index, idx), points,
                                     methods(data, method)[c])
                /\ status' = "returned"
                /\ data' = collapse(data, axis_index, method)
    /\ UNCHANGED outs
    /\ UNCHANGED <<dvars, gen>>

\* -------------------------------------------------------- Data.transpose

\* A slip: the axes rotated by one instead of reversed.
DefaultAxesRotated(n) == [k \in 1..n |-> k % n]

\* range(n)[::-1]
DefaultAxes(n) == [k \in 1..n |-> n - k]

\* The orders of n dimensions.
AxesOrders(n) == {o \in [1..n -> 0..(n - 1)] : \A i, j \in 1..n : o[i] = o[j] => i = j}

\* The axes argument of transpose: an order, or None.
NoAxes == [given |-> FALSE]

\* Whether numpy.transpose takes the order for an array of n dimensions: as
\* many indices as dimensions, none of them twice.
Permutes(order, n) ==
    /\ Len(order) = n
    /\ \A i, j \in 1..Len(order) : order[i] = order[j] => i = j

\* data.transpose(axes): the axes and their names are put in the order
\* given, which raises for an index that is no axis; then numpy.transpose
\* raises, before a channel or the shape is assigned, for an order it does
\* not take.
Transpose(axes) ==
    /\ status # "raised"
    /\ WellFormed(data)
    /\ args' = [name |-> "transpose", axes |-> axes, before |-> data,
                prior |-> Prior(args)]
    /\ LET order == IF axes.given THEN axes.order
                     ELSE DefaultAxes(Len(data.channels[1].values.shape))
       IN  IF \E k \in 1..Len(order) : order[k] >= Len(data.axes)
           THEN /\ status' = "raised"
                /\ data' = data
           ELSE IF ~Permutes(order, Len(data.channels[1].values.shape))
           THEN /\ status' = "raised"
                /\ data' = [data EXCEPT
                       !.axes = [k \in 1..Len(order) |->
                                    data.axes[order[k] + 1]],
                       !.axis_names = [k \in 1..Len(order) |->
                                          data.axis_names[order[k] + 1]]]
           ELSE /\ status' = "returned"
                /\ data' = transpose(data, order)
    /\ UNCHANGED outs
    /\ UNCHANGED <<dvars, gen>>

\* The values of its channels: ones, or 0, 1, 2 in turn, or these after a
\* NaN.
CollapseValues(sh) ==
    {[idx \in IndexSet(sh) |-> 1],
     [idx \in IndexSet(sh) |-> FlatIndex(idx, sh, 0) % 3],
     [idx \in IndexSet(sh) |->
         IF FlatIndex(idx, sh, 0) = 0 THEN NaN ELSE FlatIndex(idx, sh, 0) % 3]}

CollapseShapes ==
    UNION {[1..rank -> 1..MaxCollapsePoints] : rank \in {1, 2}}

TransposeShapes ==
    UNION {[1..rank -> 1..MaxCollapsePoints] : rank \in {1, 2, 3}}

\* The Data objects that are collapsed and transposed: of one or two axes
\* and of one or two channels.
CollapseData(sh, desc, elems, nchannels) ==
    LET signal == Channel([shape |-> sh, elems |-> elems], "signal")
        pyro == Channel([shape |-> sh, elems |-> Ramp(sh)], "pyro")
    IN  Data([k \in 1..Len(sh) |->
                 Axis(AxisPoints(sh[k], 1, desc /\ k = 1), "fs", AxisName(k))],
             IF nchannels = 1 THEN <<signal>> ELSE <<signal, pyro>>,
             <<>>)

CollapseDataInit ==
    /\ data \in UNION {
           {CollapseData(sh, desc, elems, nchannels) :
               desc \in BOOLEAN, elems \in CollapseValues(sh),
               nchannels \in {1, 2}} :
           sh \in CollapseShapes}
    /\ args = NoArgs
    /\ outs = <<>>
    /\ status = "idle"

\* The Data objects that are transposed: of one to three axes and of one
\* or two channels, every element of a channel another number.
TransposeDataInit ==
    /\ data \in {CollapseData(sh, FALSE, Ramp(sh), nchannels) :
                    sh \in TransposeShapes, nchannels \in {1, 2}}
    /\ args = NoArgs
    /\ outs = <<>>
    /\ status = "idle"

\* The axis and method arguments of collapse.
CollapseAxisArgs ==
    {[index |-> i] : i \in {0, 1}} \cup {[name |-> n] : n \in {"w1", "w3"}}

CollapseMethods ==
    {[str |-> m] : m \in {"integrate", "sum", "max", "min", "average", "median"}}
    \cup {[list |-> l] : l \in {<<"integrate">>, <<"median">>,
                                <<"sum", "integrate">>, <<"median", "min">>}}

\* The orders for n axes that are no permutation of them: one index too
\* few or too many, an index twice, or an index that is no axis.
RejectedOrders(n) ==
    {o \in UNION {[1..m -> 0..n] : m \in (n - 1)..(n + 1)} :
        \/ ~Permutes(o, n)
        \/ \E k \in 1..Len(o) : o[k] >= n}

\* transpose with no order, and with orders that are rejected.
RejectedNext ==
    \/ \E o \in RejectedOrders(Len(data.axes)) :
           Transpose([given |-> TRUE, order |-> o])
    \/ Transpose(NoAxes)

TransposeNext ==
    \/ \E o \in AxesOrders(Len(data.axes)) :
           Transpose([given |-> TRUE, order |-> o])
    \/ Transpose(NoAxes)

CollapseNext ==
    \/ \E axis \in CollapseAxisArgs, method \in CollapseMethods :
           Collapse(axis, method)
    \/ TransposeNext

\* ------------------------------------------------------------- Data.flip

\* seq[::-1]
Backwards(seq) == [k \in 1..Len(seq) |-> seq[Len(seq) + 1 - k]]

\* An array with its elements reversed along one dimension.
ReversedAlong(values, axis_index) ==
    [values EXCEPT !.elems =
        [idx \in IndexSet(values.shape) |->
            values.elems[[idx EXCEPT ![axis_index + 1] =
                values.shape[axis_index + 1] - 1 - @]]]]

\* A slip: the points of the axis reversed and the channels left as they
\* are.
flipPointsOnly(d, axis_index) ==
    [d EXCEPT !.axes[axis_index + 1].points = Backwards(@)]

\* The object after flip(axis): the points of the axis and every channel
\* along it reversed.
flip(d, axis_index) ==
    [d EXCEPT
        !.axes[axis_index + 1].points = Backwards(@),
        !.channels = [c \in 1..Len(d.channels) |->
            [d.channels[c] EXCEPT !.values = ReversedAlong(@, axis_index)]]]

\* ---------------------------------------------------------- Data.map_axis

\* numpy.searchsorted(grid, x) on an ascending grid.
searchsorted(grid, x) == Cardinality({k \in 1..Len(grid) : grid[k] < x})

\* The index, from 0, of the lower of the two grid points a point is
\* interpolated between.
LowerIndex(grid, x) ==
    LET i == searchsorted(grid, x) - 1
    IN  IF i < 0 THEN 0 ELSE IF i > Len(grid) - 2 THEN Len(grid) - 2 ELSE i

\* Whether the first point of an axis is greater than its last.
Descending(points) == points[1] > points[Len(points)]

\* The object with every axis flipped whose flag is set, from axis k on.
RECURSIVE FlipWhere(_, _, _)
FlipWhere(d, flags, k) ==
    IF k > Len(flags) THEN d
    ELSE FlipWhere(IF flags[k] THEN flip(d, k - 1) ELSE d, flags, k + 1)

\* The coordinates of the new element at idx: the new point on the mapped
\* axis, the old points on the others.
Coordinates(d, axis_index, points, idx) ==
    [k \in 1..Len(idx) |->
        IF k = axis_index + 1 THEN points[idx[k] + 1]
        ELSE d.axes[k].points[idx[k] + 1]]

\* The elements between which the element at the coordinates xs is
\* interpolated.
Corners(d, values, xs) ==
    {c \in IndexSet(values.shape) :
        \A k \in 1..Len(xs) :
            c[k] - LowerIndex(d.axes[k].points, xs[k]) \in {0, 1}}

\* Whether a coordinate lies outside the points of its axis.
OutOfBounds(grid, x) == x < grid[1] \/ x > grid[Len(grid)]

\* The two elements along the mapped axis that carry weight at the
\* coordinates xs, the points they lie at, and the numerator and
\* denominator of the line through them at xs.
Line(d, values, axis_index, idx, xs) ==
    LET grid == d.axes[axis_index + 1].points
        x == xs[axis_index + 1]
        lo == LowerIndex(grid, x)
        v0 == values.elems[[idx EXCEPT ![axis_index + 1] = lo]]
        v1 == values.elems[[idx EXCEPT ![axis_index + 1] = lo + 1]]
        g0 == grid[lo + 1]
        g1 == grid[lo + 2]
    IN  [num |-> v0 * (g1 - x) + v1 * (x - g0), den |-> g1 - g0]

\* scipy.interpolate.interpn(..., method='linear', bounds_error=False,
\* fill_value=nan) at one new element: NaN outside the points, NaN when a
\* corner is NaN, whatever its weight, and else the line along the mapped
\* axis, the other coordinates lying on their points.
interpn(d, values, axis_index, points, idx) ==
    LET xs == Coordinates(d, axis_index, points, idx)
        line == Line(d, values, axis_index, idx, xs)
    IN  IF OutOfBounds(d.axes[axis_index + 1].points, xs[axis_index + 1])
        THEN NaN
        ELSE IF \E c \in Corners(d, values, xs) : values.elems[c] = NaN
        THEN NaN
        ELSE line.num \div line.den

\* scipy.interpolate.interp1d(x, y)(x_new) at one new element within the
\* points.
interp1d(d, values, points, idx) ==
    LET xs == <<points[idx[1] + 1]>>
        lo == LowerIndex(d.axes[1].points, xs[1])
        line == Line(d, values, 0, idx, xs)
    IN  IF values.elems[<<lo>>] = NaN \/ values.elems[<<lo + 1>>] = NaN
        THEN NaN
        ELSE line.num \div line.den

\* The shape of a channel after the mapping.
MappedShape(values, axis_index, points) ==
    [values.shape EXCEPT ![axis_index + 1] = Len(points)]

\* The channel values after the mapping of the object d, its axes
\* ascending.
mapped(d, values, axis_index, points) ==
    LET newshape == MappedShape(values, axis_index, points)
    IN  [shape |-> newshape,
         elems |-> [idx \in IndexSet(newshape) |->
             IF Len(d.axes) = 1 THEN interp1d(d, values, points, idx)
             ELSE interpn(d, values, axis_index, points, idx)]]

\* The points given, in the units of the axis.
MapPoints(d, axis_index, points, input_units) ==
    IF input_units = "same" THEN points
    ELSE [k \in 1..Len(points) |->
             converter(points[k], input_units, d.axes[axis_index + 1].units)]

\* The object with its descending axes flipped, as map_axis interpolates
\* it.
Ascending(d) ==
    FlipWhere(d, [k \in 1..Len(d.axes) |-> Descending(d.axes[k].points)], 1)

\* The object after map_axis(axis, points): the descending axes flipped,
\* every channel interpolated, the descending axes other than the mapped
\* one flipped back, the points of the mapped axis replaced, the names and
\* shape updated.
map_axis(d, axis_index, points) ==
    LET flipped == [k \in 1..Len(d.axes) |-> Descending(d.axes[k].points)]
        up == Ascending(d)
        new == [up EXCEPT !.channels = [c \in 1..Len(d.channels) |->
                   [up.channels[c] EXCEPT !.values =
                       mapped(up, @, axis_index, points)]]]
        back == FlipWhere(new,
                    [k \in 1..Len(d.axes) |->
                        flipped[k] /\ k # axis_index + 1], 1)
    IN  update([back EXCEPT !.axes[axis_index + 1].points = points])

\* Whether every axis has two points or more, each greater than the one
\* before or each less: the grids that are interpolated on.
Mappable(d) ==
    /\ Len(d.axes) >= 1
    /\ \A k \in 1..Len(d.axes) :
           LET points == d.axes[k].points
           IN  /\ Len(points) >= 2
               /\ IF points[1] < points[2]
                  THEN \A i \in 1..(Len(points) - 1) : points[i] < points[i + 1]
                  ELSE \A i \in 1..(Len(points) - 1) : points[i] > points[i + 1]

\* Whether every line of the mapping comes to a whole number, as the
\* numbers of the model are.
WholeLines(d, axis_index, points) ==
    LET up == Ascending(d)
    IN  \A c \in 1..Len(up.channels) :
            LET values == up.channels[c].values
            IN  \A idx \in IndexSet(MappedShape(values, axis_index, points)) :
                    LET xs == Coordinates(up, axis_index, points, idx)
                        line == Line(up, values, axis_index, idx, xs)
                    IN  IF OutOfBounds(up.axes[axis_index + 1].points,
                                       xs[axis_index + 1])
                        THEN TRUE
                        ELSE line.num % line.den = 0

\* The number of calls of flip and map_axis so far.
Count(a) == IF "count" \in DOMAIN a THEN a.count ELSE 0

\* Whether the axis argument names no axis of the object.
NoSuchAxis(d, axis) ==
    \/ "name" \in DOMAIN axis /\ axis.name \notin Range(d.axis_names)
    \/ "index" \in DOMAIN axis /\ axis.index >= Len(d.axes)

\* data.flip(axis)
Flip(axis) ==
    /\ status # "raised"
    /\ Count(args) < MaxCalls
    /\ WellFormed(data)
    /\ args' = [name |-> "flip", axis |-> axis, before |-> data,
                prior |-> Prior(args), count |-> Count(args) + 1]
    /\ IF NoSuchAxis(data, axis)
       THEN /\ status' = "raised"
            /\ data' = data
       ELSE /\ status' = "returned"
            /\ data' = flip(data, AxisIndex(data, axis))
    /\ UNCHANGED outs
    /\ UNCHANGED <<dvars, gen>>

\* data.map_axis(axis, points, input_units): on an object of one axis the
\* interpolation raises for a point outside the points of the axis, after
\* the flip of a descending axis.
MapAxis(axis, points, input_units) ==
    /\ status # "raised"
    /\ Count(args) < MaxCalls
    /\ WellFormed(data)
    /\ Mappable(data)
    /\ args' = [name |-> "map_axis", axis |-> axis, points |-> points,
                input_units |-> input_units, before |-> data,
                prior |-> Prior(args), count |-> Count(args) + 1]
    /\ IF NoSuchAxis(data, axis)
       THEN /\ status' = "raised"
            /\ data' = data
       ELSE LET axis_index == AxisIndex(data, axis)
                new_points == MapPoints(data, axis_index, points, input_units)
                grid == Ascending(data).axes[axis_index + 1].points
            IN  IF /\ Len(data.axes) = 1
                   /\ \E k \in 1..Len(new_points) :
                          OutOfBounds(grid, new_points[k])
                THEN /\ status' = "raised"
                     /\ data' = Ascending(data)
                ELSE /\ WholeLines(data, axis_index, new_points)
                     /\ status' = "returned"
                     /\ data' = map_axis(data, axis_index, new_points)
    /\ UNCHANGED outs
    /\ UNCHANGED <<dvars, gen>>

\* The axes of an object that is mapped: two points or more, 2 apart,
\* ascending or descending.
MapAxes ==
    {AxisPoints(n, 2, desc) : n \in 2..MaxMapPoints, desc \in BOOLEAN}

\* The values of its first channel: 2, 4, ... in C order, or these after a
\* NaN.
MapValues(sh) ==
    {[idx \in IndexSet(sh) |-> 2 * (FlatIndex(idx, sh, 0) + 1)],
     [idx \in IndexSet(sh) |->
         IF FlatIndex(idx, sh, 0) = 0 THEN NaN
         ELSE 2 * (FlatIndex(idx, sh, 0) + 1)]}

MapData(pointss, elems, nchannels) ==
    LET sh == [k \in 1..Len(pointss) |-> Len(pointss[k])]
        signal == Channel([shape |-> sh, elems |-> elems], "signal")
        pyro == Channel([shape |-> sh,
                         elems |-> [idx \in IndexSet(sh) |->
                                       4 * FlatIndex(idx, sh, 0)]], "pyro")
    IN  Data([k \in 1..Len(pointss) |->
                 Axis(pointss[k], "fs", AxisName(k))],
             IF nchannels = 1 THEN <<signal>> ELSE <<signal, pyro>>,
             <<>>)

\* The Data objects that are mapped and flipped: of one or two axes, and of
\* one channel that holds a NaN or of two that hold none.
MapDataInit ==
    /\ data \in UNION {
           {MapData(pointss, elems, IF elems[[k \in 1..Len(pointss) |-> 0]] = NaN THEN 1 ELSE 2) :
               elems \in MapValues([k \in 1..Len(pointss) |-> Len(pointss[k])])} :
           pointss \in UNION {[1..rank -> MapAxes] : rank \in {1, 2}}}
    /\ args = NoArgs
    /\ outs = <<>>
    /\ status = "idle"

\* The axis, points and input_units arguments of map_axis and flip.
MapAxisArgs ==
    {[index |-> i] : i \in {0, 1}} \cup {[name |-> n] : n \in {"w1", "w2"}}

MapPointLists == {<<0, 2>>, <<-1, 1>>, <<1, 2>>, <<2, 0>>, <<0, 1, 2>>}

MapUnits == {"same", "ps"}

MapNext ==
    \/ \E axis \in MapAxisArgs, points \in MapPointLists,
          input_units \in MapUnits : MapAxis(axis, points, input_units)
    \/ \E axis \in MapAxisArgs : Flip(axis)

\* ----------------------------------------------------------- Axis.convert

\* Whether every quotient of the conversion of the points is whole, as the
\* numbers of the model are.
WholeConversion(points, current_unit, destination_unit) ==
    \A k \in 1..Len(points) :
        IF current_unit = "fs" /\ destination_unit = "ps"
        THEN points[k] % 1000 = 0
        ELSE IF {current_unit, destination_unit} = {"nm", "wn"}
        THEN points[k] > 0 /\ 10000000 % points[k] = 0
        ELSE TRUE

\* The axis after convert(destination_units): the points converted, then
\* the units recorded.
Axis_convert(axis, destination_units) ==
    [axis EXCEPT
        !.points = [k \in 1..Len(axis.points) |->
                       converter(axis.points[k], axis.units, destination_units)],
        !.units = destination_units]

\* The object after convert(destination_units): every axis and constant of
\* the kind of the units converted.
convert(d, destination_units) ==
    [d EXCEPT
        !.axes = [k \in 1..Len(d.axes) |->
            IF d.axes[k].units_kind = units_kind(destination_units)
            THEN Axis_convert(d.axes[k], destination_units) ELSE d.axes[k]],
        !.constants = [k \in 1..Len(d.constants) |->
            IF d.constants[k].units_kind = units_kind(destination_units)
            THEN Axis_convert(d.constants[k], destination_units)
            ELSE d.constants[k]]]

\* data.axes[axis].convert(destination_units): the converter raises before
\* anything is assigned.
AxisConvert(axis, destination_units) ==
    /\ status # "raised"
    /\ axis < Len(data.axes)
    /\ args' = [name |-> "Axis.convert", axis |-> axis,
                destination_units |-> destination_units, before |-> data,
                prior |-> Prior(args)]
    /\ IF converterRaises(data.axes[axis + 1].units, destination_units)
       THEN /\ status' = "raised"
            /\ data' = data
       ELSE /\ WholeConversion(data.axes[axis + 1].points,
                               data.axes[axis + 1].units, destination_units)
            /\ status' = "returned"
            /\ data' = [data EXCEPT !.axes[axis + 1] =
                           Axis_convert(@, destination_units)]
    /\ UNCHANGED outs
    /\ UNCHANGED <<dvars, gen>>

\* data.convert(destination_units)
DataConvert(destination_units) ==
    /\ status # "raised"
    /\ \A k \in 1..Len(data.axes) :
           data.axes[k].units_kind = units_kind(destination_units) =>
               WholeConversion(data.axes[k].points, data.axes[k].units,
                               destination_units)
    /\ \A k \in 1..Len(data.constants) :
           data.constants[k].units_kind = units_kind(destination_units) =>
               WholeConversion(data.constants[k].points,
                               data.constants[k].units, destination_units)
    /\ args' = [name |-> "convert", destination_units |-> destination_units,
                before |-> data, prior |-> Prior(args)]
    /\ status' = "returned"
    /\ data' = convert(data, destination_units)
    /\ UNCHANGED outs
    /\ UNCHANGED <<dvars, gen>>

Units == {"fs", "ps", "nm", "wn"}

\* The points of an axis of time, in fs and in ps, and of an axis of
\* energy, in nm and in wn, of one or two points.
TimeAxes ==
    {Axis(points, "fs", "d1") : points \in {<<0>>, <<2000, 5000>>, <<3000, 0>>}}
    \cup {Axis(points, "ps", "d1") : points \in {<<1>>, <<0, 4>>, <<5, 3>>}}

EnergyAxes ==
    {Axis(points, "nm", "w1") : points \in {<<500>>, <<400, 800>>, <<625, 500>>}}
    \cup {Axis(points, "wn", "w1") :
             points \in {<<20000>>, <<12500, 25000>>, <<16000, 10000>>}}

\* The Data objects whose axes are converted: an axis of time, one of
\* energy or both, and no constant or one of time.
ConvertData(axes, constants) ==
    LET sh == [k \in 1..Len(axes) |-> Len(axes[k].points)]
    IN  Data(axes, <<Channel([shape |-> sh, elems |-> Ramp(sh)], "signal")>>,
             constants)

ConvertDataInit ==
    /\ data \in {ConvertData(axes, constants) :
                    axes \in {<<t>> : t \in TimeAxes}
                             \cup {<<e>> : e \in EnergyAxes}
                             \cup (TimeAxes \X EnergyAxes),
                    constants \in {<<>>, <<Axis(<<7000>>, "fs", "d2")>>}}
    /\ args = NoArgs
    /\ outs = <<>>
    /\ status = "idle"

ConvertNext ==
    \/ \E axis \in {0, 1}, destination_units \in Units :
           AxisConvert(axis, destination_units)
    \/ \E destination_units \in Units : DataConvert(destination_units)

\* -------------------------------------------------------------------- join

\* The least and the greatest of a set of numbers.
Least(nums) == CHOOSE m \in nums : \A v \in nums : m <= v

Greatest(nums) == CHOOSE m \in nums : \A v \in nums : v <= m

\* The axis of the joined data that dimension k of every data is mapped
\* to: from the least to the greatest point of all, in as many points as
\* the smallest step size, the span of the points of a data over their
\* number, goes into that span, rounded up.  A record of the first point,
\* the span and the number of points.
axis_points(datas, k) ==
    LET all_points == UNION {Range(datas[i].axes[k].points) : i \in 1..Len(datas)}
        span(i) == Greatest(Range(datas[i].axes[k].points))
                   - Least(Range(datas[i].axes[k].points))
        number(i) == Len(datas[i].axes[k].points)
        smallest == CHOOSE i \in 1..Len(datas) :
                        \A j \in 1..Len(datas) :
                            span(i) * number(j) <= span(j) * number(i)
        axis_min == Least(all_points)
        axis_max == Greatest(all_points)
        axis_n_points ==
            ((axis_max - axis_min) * number(smallest) + span(smallest) - 1)
                \div span(smallest)
    IN  [min |-> axis_min, span |-> axis_max - axis_min, n |-> axis_n_points]

\* numpy.linspace(axis_min, axis_max, axis_n_points)
linspace(grid) ==
    [j \in 1..grid.n |-> grid.min + ((j - 1) * grid.span) \div (grid.n - 1)]

\* Whether the points of the joined axis are whole, as the numbers of the
\* model are.
WholeGrid(grid) == grid.n >= 2 /\ grid.span % (grid.n - 1) = 0

\* Whether map_axis raises: the object has one axis and a point lies
\* outside it.
MapAxisRaises(d, axis_index, points) ==
    /\ Len(d.axes) = 1
    /\ \E j \in 1..Len(points) :
           OutOfBounds(Ascending(d).axes[axis_index + 1].points, points[j])

\* A data with its axes from k on mapped to the points of the joined axes,
\* one after the other.
RECURSIVE MappedToAll(_, _, _)
MappedToAll(d, pointss, k) ==
    IF k > Len(pointss) THEN d
    ELSE MappedToAll(map_axis(d, k - 1, pointss[k]), pointss, k + 1)

\* Whether every line of these mappings comes to a whole number.
RECURSIVE WholeMappings(_, _, _)
WholeMappings(d, pointss, k) ==
    IF k > Len(pointss) THEN TRUE
    ELSE /\ WholeLines(d, k - 1, pointss[k])
         /\ WholeMappings(map_axis(d, k - 1, pointss[k]), pointss, k + 1)

\* The first of the values that are not NaN, and NaN if there is none.
FirstOf(values) ==
    LET found == {i \in 1..Len(values) : values[i] # NaN}
    IN  IF found = {} THEN NaN ELSE values[Least(found)]

\* numpy.nansum along the datas, 0 written NaN.
SumOf(values) ==
    LET total == SeqSum([i \in 1..Len(values) |->
                            IF values[i] = NaN THEN 0 ELSE values[i]])
    IN  IF total = 0 THEN NaN ELSE total

\* The values of one element in every data, joined by the method.
zis(values, method) ==
    IF method = "first" THEN FirstOf(values)
    ELSE IF method = "sum" THEN SumOf(values)
    ELSE IF method = "max" THEN nanmax(Range(values))
    ELSE nanmin(Range(values))

\* The Data object that join returns for datas mapped to the joined axes:
\* the axes of the first, and as many channels as the data of fewest
\* channels has, named as those of the first, with znull 0.
joined(mappeds, method) ==
    LET n_channels == Least({Len(mappeds[i].channels) : i \in 1..Len(mappeds)})
        sh == mappeds[1].channels[1].values.shape
    IN  Data(mappeds[1].axes,
             [c \in 1..n_channels |->
                 [Channel([shape |-> sh,
                           elems |-> [idx \in IndexSet(sh) |->
                               zis([i \in 1..Len(mappeds) |->
                                       mappeds[i].channels[c].values.elems[idx]],
                                   method)]],
                          mappeds[1].channels[c].name)
                  EXCEPT !.znull = 0]],
             <<>>)

\* A slip: join works on the datas themselves.
givenWorkedOn(datas, worked) == worked

\* The datas given to join, once join has worked: join works on copies
\* that share nothing with the datas, which are left as they were given.
given(datas, worked) == datas

\* join(datas, method) on datas of the same axes in the same units: the
\* datas are copied, the axes converted to the units of the first, the
\* joined axes made, every copy mapped to them, and the channels joined.
\* The datas given are recorded as they are after the call.
Join(datas, method) ==
    /\ status = "idle"
    /\ LET copies == [i \in 1..Len(datas) |->
                         [datas[i] EXCEPT !.axes = [k \in 1..Len(@) |->
                             Axis_convert(@[k], datas[1].axes[k].units)]]]
           grids == [k \in 1..Len(copies[1].axes) |-> axis_points(copies, k)]
           pointss == [k \in 1..Len(grids) |-> linspace(grids[k])]
       IN  /\ \A k \in 1..Len(grids) : WholeGrid(grids[k])
           /\ IF \E i \in 1..Len(copies) : MapAxisRaises(copies[i], 0, pointss[1])
              THEN /\ args' = [name |-> "join", datas |-> datas,
                               method |-> method,
                               after |-> given(datas, copies)]
                   /\ status' = "raised"
                   /\ outs' = <<>>
              ELSE /\ \A i \in 1..Len(copies) :
                          WholeMappings(copies[i], pointss, 1)
                   /\ args' = [name |-> "join", datas |-> datas,
                               method |-> method,
                               after |-> given(datas,
                                   [i \in 1..Len(copies) |->
                                       MappedToAll(copies[i], pointss, 1)])]
                   /\ IF method \in {"first", "sum", "max", "min"}
                      THEN /\ status' = "returned"
                           /\ outs' = <<joined(
                                  [i \in 1..Len(copies) |->
                                      MappedToAll(copies[i], pointss, 1)],
                                  method)>>
                      ELSE /\ status' = "returned None"
                           /\ outs' = <<>>
    /\ UNCHANGED data
    /\ UNCHANGED <<dvars, gen>>

\* The first axes of the datas that are joined.
JoinAxes == {<<0, 3>>, <<1, 4>>, <<0, 2, 4>>, <<4, 0>>}

\* A data that is joined: its first axis as given, its second, if it has
\* one, of the points 0 and 2; one channel of multiples of 6, with a NaN
\* first or not.
JoinData(points, rank, nan, factor) ==
    LET pointss == IF rank = 1 THEN <<points>> ELSE <<points, <<0, 2>> >>
        sh == [k \in 1..rank |-> Len(pointss[k])]
    IN  Data([k \in 1..rank |-> Axis(pointss[k], "fs", AxisName(k))],
             <<Channel([shape |-> sh,
                        elems |-> [idx \in IndexSet(sh) |->
                            IF nan /\ FlatIndex(idx, sh, 0) = 0 THEN NaN
                            ELSE factor * (FlatIndex(idx, sh, 0) + 1)]],
                       "signal")>>,
             <<>>)

\* The lists of one or two datas of one rank that are joined.
JoinDatas ==
    UNION {
        {<<JoinData(points, rank, nan, 6)>> :
            points \in JoinAxes, nan \in BOOLEAN}
        \cup {<<JoinData(points, rank, nan, 6), JoinData(other, rank, too, 12)>> :
                 points \in JoinAxes, nan \in BOOLEAN,
                 other \in JoinAxes, too \in BOOLEAN} :
        rank \in {1, 2}}

JoinMethods == {"first", "sum", "max", "min", "mean"}

JoinNext == \E datas \in JoinDatas, method \in JoinMethods : Join(datas, method)

\* ----------------------------------------------------------- Data.offset

\* The corrections along the axis: interp1d(points, offsets,
\* bounds_error=False) at the points of the axis, NaN outside the points
\* given, and the NaN at either end then padded with the nearest correction.
corrections(points, offsets, along_points) ==
    LET raw == [i \in 1..Len(along_points) |->
                   LET x == along_points[i]
                       lo == LowerIndex(points, x)
                   IN  IF OutOfBounds(points, x) THEN NaN
                       ELSE (offsets[lo + 1] * (points[lo + 2] - x)
                             + offsets[lo + 2] * (x - points[lo + 1]))
                            \div (points[lo + 2] - points[lo + 1])]
        finite == {i \in 1..Len(raw) : raw[i] # NaN}
    IN  [i \in 1..Len(raw) |->
            IF i < Least(finite) THEN raw[Least(finite)]
            ELSE IF i > Greatest(finite) THEN raw[Greatest(finite)]
            ELSE raw[i]]

\* Whether a point of the axis lies within the points given and every
\* correction is a whole number, as the numbers of the model are.
WholeCorrections(points, offsets, along_points) ==
    /\ \E i \in 1..Len(along_points) : ~OutOfBounds(points, along_points[i])
    /\ \A i \in 1..Len(along_points) :
           LET x == along_points[i]
               lo == LowerIndex(points, x)
           IN  IF OutOfBounds(points, x) THEN TRUE
               ELSE (offsets[lo + 1] * (points[lo + 2] - x)
                     + offsets[lo + 2] * (x - points[lo + 1]))
                    % (points[lo + 2] - points[lo + 1]) = 0

\* The order that puts the axis last and the last axis in its place.
OffsetOrder(n, axis_index) ==
    [k \in 1..n |-> IF k = axis_index + 1 THEN n - 1
                    ELSE IF k = n THEN axis_index
                    ELSE k - 1]

\* The index of the offset axis: the int given, or the index of the name
\* given, among the axes as they are once the along axis is last.
offset_axis_index(d, axis_index, offset_axis) ==
    AxisIndex(transpose(d, OffsetOrder(Len(d.axes), axis_index)), offset_axis)

\* The new points of the offset axis for modes 'valid' and 'full': a record
\* of the first point, the span and the number of points, the span over the
\* spacing rounded up, where the spacing is the span of the old points over
\* their number.
new_offset_axis_points(old, corr, mode) ==
    LET lo == Least(Range(old))
        hi == Greatest(Range(old))
        _max == hi + (IF mode = "valid" THEN Least(Range(corr))
                      ELSE Greatest(Range(corr)))
        _min == lo + (IF mode = "valid" THEN Greatest(Range(corr))
                      ELSE Least(Range(corr)))
    IN  [min |-> _min, span |-> _max - _min,
         n |-> ((_max - _min) * Len(old) + (hi - lo) - 1) \div (hi - lo)]

\* The points of the offset axis after the call.
OffsetPoints(old, corr, mode) ==
    IF mode = "old" THEN old
    ELSE linspace(new_offset_axis_points(old, corr, mode))

\* The shape of every channel after the call, the along axis last.
OffsetShape(d, axis_index, offset_axis, new_points) ==
    LET t == transpose(d, OffsetOrder(Len(d.axes), axis_index))
    IN  [t.shape EXCEPT
            ![offset_axis_index(d, axis_index, offset_axis) + 1] =
                Len(new_points)]

\* The elements that scipy.interpolate.griddata may give a channel on the
\* new grid: the scattered points are triangulated, a grid point outside
\* their hull is NaN and one inside lies between the least and the greatest
\* element; which it is is left to the triangulation.
Gridded(values, sh) ==
    [IndexSet(sh) ->
        {NaN} \cup (nanmin(ArrayElements(values))
                    ..nanmax(ArrayElements(values)))]

\* The object after offset(points, offsets, along, offset_axis, mode=mode):
\* transposed so that the along axis is last, every channel gridded anew
\* (elemss holds the elements of each) and updated, the axis at the offset
\* index given its new points, transposed back, and updated.
offset(d, points, offsets, axis_index, offset_axis, mode, elemss) ==
    LET order == OffsetOrder(Len(d.axes), axis_index)
        t == transpose(d, order)
        oai == offset_axis_index(d, axis_index, offset_axis)
        corr == corrections(points, offsets, d.axes[axis_index + 1].points)
        new_points == OffsetPoints(t.axes[oai + 1].points, corr, mode)
        sh == [t.shape EXCEPT ![oai + 1] = Len(new_points)]
        gridded == [t EXCEPT
            !.channels = [c \in 1..Len(t.channels) |->
                Channel_update([t.channels[c] EXCEPT
                    !.values = [shape |-> sh, elems |-> elemss[c]]])],
            !.axes[oai + 1].points = new_points]
    IN  update(transpose(gridded, order))

\* data.offset(points, offsets, along, offset_axis, mode=mode), the points
\* in the units of the along axis, on an object of finite elements.
Offset(points, offsets, along, offset_axis, mode) ==
    /\ status = "idle"
    /\ LET axis_index == AxisIndex(data, along)
           along_points == data.axes[axis_index + 1].points
           oai == offset_axis_index(data, axis_index, offset_axis)
           old == transpose(data, OffsetOrder(Len(data.axes), axis_index))
                      .axes[oai + 1].points
       IN  /\ WholeCorrections(points, offsets, along_points)
           /\ IF mode = "old" THEN TRUE
              ELSE WholeGrid(new_offset_axis_points(old,
                       corrections(points, offsets, along_points), mode))
           /\ LET new_points == OffsetPoints(old,
                      corrections(points, offsets, along_points), mode)
                  sh == OffsetShape(data, axis_index, offset_axis, new_points)
              IN  \E elemss \in [1..Len(data.channels) ->
                                    Gridded(data.channels[1].values, sh)] :
                      data' = offset(data, points, offsets, axis_index,
                                     offset_axis, mode, elemss)
    /\ args' = [name |-> "offset", points |-> points, offsets |-> offsets,
                along |-> along, offset_axis |-> offset_axis, mode |-> mode,
                before |-> data]
    /\ status' = "returned"
    /\ UNCHANGED outs
    /\ UNCHANGED <<dvars, gen>>

\* The first axes of the objects that are offset, their second axes, and
\* the points and offsets given.
OffsetFirstAxes == {<<0, 2>>, <<0, 1, 2>>}

OffsetSecondAxes == {<<0, 2>>, <<0, 2, 4>>}

OffsetPointLists == {<<0, 2>>, <<0, 1>>}

OffsetLists == {<<0, 2>>, <<-2, 2>>}

OffsetModes == {"old", "valid", "full"}

\* An object of two axes and one channel that holds the same number
\* everywhere.
OffsetData(first, second) ==
    Data(<<Axis(first, "fs", "w1"), Axis(second, "fs", "w2")>>,
         <<Channel([shape |-> <<Len(first), Len(second)>>,
                    elems |-> [idx \in IndexSet(<<Len(first), Len(second)>>)
                                  |-> 1]],
                   "signal")>>,
         <<>>)

OffsetDataInit ==
    /\ data \in {OffsetData(first, second) :
                    first \in OffsetFirstAxes, second \in OffsetSecondAxes}
    /\ args = NoArgs
    /\ outs = <<>>
    /\ status = "idle"

OffsetNext ==
    \E points \in OffsetPointLists, offsets \in OffsetLists,
       along \in AxisArgs, offset_axis \in AxisArgs, mode \in OffsetModes :
        Offset(points, offsets, along, offset_axis, mode)

\* ----------------------------------------------------------- Data.revert

\* Data.__init__: the object with the deep copy of itself that it reserves
\* as _original.  The copy shares no object with it (shares), and its list
\* of axes is its own (shares_axes).
reserved(d) ==
    [axes |-> d.axes, constants |-> d.constants, channels |-> d.channels,
     axis_names |-> d.axis_names, constant_names |-> d.constant_names,
     channel_names |-> d.channel_names, shape |-> d.shape,
     _original |-> d, shares |-> FALSE, shares_axes |-> FALSE]

\* Data.revert: every attribute of the object that is not a method is
\* assigned the attribute of the original, so that the lists of axes,
\* constants and channels of the object are from then on those of the
\* original, and the Axis and Channel objects in them too; then _update.
revert(d) ==
    LET o == d._original
    IN  update([d EXCEPT
            !.axes = o.axes, !.constants = o.constants,
            !.channels = o.channels, !.axis_names = o.axis_names,
            !.constant_names = o.constant_names,
            !.channel_names = o.channel_names, !.shape = o.shape,
            !.shares = TRUE, !.shares_axes = TRUE])

\* The object once a method has changed it to after, with what the change
\* does to the original: nothing while they share nothing; else the
\* channels and constants of the original are those of the object, and its
\* axes are the list of the object if the list is shared and the method
\* has changed it in place (rebinds is false), and else its own list of
\* Axis objects, each as the method left it.
aliased(d, after, rebinds) ==
    IF ~d.shares THEN after
    ELSE [after EXCEPT
             !._original = [@ EXCEPT
                 !.channels = after.channels,
                 !.constants = after.constants,
                 !.axes =
                     IF d.shares_axes /\ ~rebinds THEN after.axes
                     ELSE [k \in 1..Len(@) |->
                              IF \E j \in 1..Len(after.axes) :
                                     after.axes[j].name = @[k].name
                              THEN after.axes[CHOOSE j \in 1..Len(after.axes) :
                                       after.axes[j].name = @[k].name]
                              ELSE @[k]]],
             !.shares_axes = d.shares_axes /\ ~rebinds]

\* One call of a method that changes the object to after, the calls so
\* far counted and the object as constructed carried along.
Mutated(name, after, rebinds) ==
    /\ status # "raised"
    /\ args.count < MaxCalls
    /\ args' = [args EXCEPT !.name = name, !.count = @ + 1]
    /\ status' = "returned"
    /\ data' = aliased(data, after, rebinds)
    /\ UNCHANGED outs
    /\ UNCHANGED <<dvars, gen>>

\* data.transpose(axes), which assigns a new list of axes.
TransposeReserved(axes) ==
    /\ Len(axes) = Len(data.axes)
    /\ Mutated("transpose", transpose(data, axes), TRUE)

\* data.flip(axis)
FlipReserved(axis) ==
    /\ axis < Len(data.axes)
    /\ Mutated("flip", flip(data, axis), FALSE)

\* data.collapse(axis, method), which pops the axis from the list of axes.
CollapseReserved(axis, method) ==
    /\ axis < Len(data.axes)
    /\ WellFormed(data)
    /\ \A c \in 1..Len(data.channels) :
           LET values == data.channels[c].values
           IN  \A idx \in IndexSet(Popped(values.shape, axis)) :
                   Whole(Along(values, axis, idx),
                         data.axes[axis + 1].points, method)
    /\ Mutated("collapse", collapse(data, axis, [str |-> method]), FALSE)

\* data.map_axis(axis, points) where it does not raise.
MapAxisReserved(axis, points) ==
    /\ axis < Len(data.axes)
    /\ WellFormed(data)
    /\ Mappable(data)
    /\ IF Len(data.axes) = 1
       THEN \A k \in 1..Len(points) :
                ~OutOfBounds(Ascending(data).axes[1].points, points[k])
       ELSE TRUE
    /\ WholeLines(data, axis, points)
    /\ Mutated("map_axis", map_axis(data, axis, points), FALSE)

\* data.convert(destination_units)
ConvertReserved(destination_units) ==
    /\ \A k \in 1..Len(data.axes) :
           WholeConversion(data.axes[k].points, data.axes[k].units,
                           destination_units)
    /\ Mutated("convert", convert(data, destination_units), FALSE)

\* data.revert()
Revert ==
    /\ status # "raised"
    /\ args.reverts < MaxReverts
    /\ args' = [args EXCEPT !.name = "revert", !.reverts = @ + 1]
    /\ status' = "returned"
    /\ data' = revert(data)
    /\ UNCHANGED outs
    /\ UNCHANGED <<dvars, gen>>

\* The axes of the objects that are reverted, in ps.
RevertAxes == {<<0, 2>>, <<2, 0>>, <<0, 2, 4>>}

\* An object of one or two axes and one channel of 2, 4, ... in C order.
RevertData(pointss) ==
    LET sh == [k \in 1..Len(pointss) |-> Len(pointss[k])]
    IN  reserved(Data([k \in 1..Len(pointss) |->
                          Axis(pointss[k], "ps", AxisName(k))],
                      <<Channel([shape |-> sh,
                                 elems |-> [idx \in IndexSet(sh) |->
                                     2 * (FlatIndex(idx, sh, 0) + 1)]],
                                "signal")>>,
                      <<>>))

RevertDataInit ==
    /\ data \in {RevertData(pointss) :
                    pointss \in UNION {[1..rank -> RevertAxes] : rank \in {1, 2}}}
    /\ args = [name |-> "Data", constructed |-> data._original, count |-> 0,
               reverts |-> 0]
    /\ outs = <<>>
    /\ status = "idle"

RevertMapPoints == {<<0, 1, 2>>, <<1, 3>>}

RevertNext ==
    \/ \E axes \in {<<0>>, <<1, 0>>} : TransposeReserved(axes)
    \/ \E axis \in {0, 1} : FlipReserved(axis)
    \/ \E axis \in {0, 1}, method \in {"sum", "integrate"} :
           CollapseReserved(axis, method)
    \/ \E axis \in {0, 1}, points \in RevertMapPoints :
           MapAxisReserved(axis, points)
    \/ \E destination_units \in {"fs", "ps"} :
           ConvertReserved(destination_units)
    \/ Revert

\* ------------------------------------------------------- Data.__init__

\* The names given to the axes, channels and constants of a new object.
NewNames == {"w1", "w2", "signal"}

\* The lists of one or two names.
NameLists == {<<n>> : n \in NewNames} \cup (NewNames \X NewNames)

\* Data(axes, channels, constants) with axes of two points each, channels
\* over them and constants of one point, named as given: __init__ assigns
\* the lists and calls _update, which returns in every case.
Construct(axis_names, channel_names, constant_names) ==
    /\ status = "idle"
    /\ LET sh == [k \in 1..Len(axis_names) |-> 2]
       IN  data' = Data(
               [k \in 1..Len(axis_names) |->
                   Axis(<<0, 1>>, "fs", axis_names[k])],
               [k \in 1..Len(channel_names) |->
                   Channel([shape |-> sh, elems |-> Ramp(sh)],
                           channel_names[k])],
               [k \in 1..Len(constant_names) |->
                   Axis(<<0>>, "fs", constant_names[k])])
    /\ args' = [name |-> "Data", axis_names |-> axis_names,
                channel_names |-> channel_names,
                constant_names |-> constant_names]
    /\ status' = "returned"
    /\ UNCHANGED outs
    /\ UNCHANGED <<dvars, gen>>

ConstructNext ==
    \E axis_names \in NameLists, channel_names \in NameLists,
       constant_names \in {<<>>} \cup {<<n>> : n \in NewNames} :
        Construct(axis_names, channel_names, constant_names)

DataAtRest ==
    /\ data = NewData(<< <<0>> >>)
    /\ args = NoArgs
    /\ outs = <<>>
    /\ status = "idle"

\* --------------------------------------------------------- specifications

vars == <<dvars, gen, data, args, outs, status>>

\* Any sequence of method calls on a dataset.
InitDataset == DatasetInit /\ GenAtRest /\ DataAtRest

SpecDataset == InitDataset /\ [][DatasetNext]_vars

\* One in-place operator applied to a dataset.
InPlaceNext ==
    \/ \E o \in BinOps, value \in Scalars : InPlace(o, value, FALSE)
    \/ \E o \in BinOps : InPlace(o, Ramp(shape), TRUE)
    \/ ChunkStep
    \/ ReturnToWriter

SpecInPlace == InitDataset /\ [][InPlaceNext]_vars

\* slices() on a dataset of any shape and chunk shape.
InitSlices == GenInit /\ DatasetAtRest /\ DataAtRest

SpecSlices == InitSlices /\ [][SlicesYield]_vars

\* split on a Data object of one or two axes.
InitData == DataInit /\ DatasetAtRest /\ GenAtRest

SpecSplit == InitData /\ [][DataNext]_vars

\* chop on a Data object of one to three axes.
InitChop == ChopDataInit /\ DatasetAtRest /\ GenAtRest

SpecChop == InitChop /\ [][ChopNext]_vars

\* split at three positions on a Data object of one long axis.
InitLongData == LongDataInit /\ DatasetAtRest /\ GenAtRest

SpecSplitLong == InitLongData /\ [][LongDataNext]_vars

\* Construction of a Data object from named axes, channels and constants.
InitConstruct == DataAtRest /\ DatasetAtRest /\ GenAtRest

SpecConstruct == InitConstruct /\ [][ConstructNext]_vars

\* collapse and transpose, in any sequence, on a Data object of one or
\* two axes.
InitCollapse == CollapseDataInit /\ DatasetAtRest /\ GenAtRest

SpecCollapse == InitCollapse /\ [][CollapseNext]_vars

\* transpose, any number of times, on a Data object of one to three axes.
InitTranspose == TransposeDataInit /\ DatasetAtRest /\ GenAtRest

SpecTranspose == InitTranspose /\ [][TransposeNext]_vars

\* map_axis and flip, in any sequence, on a Data object of one or two axes.
InitMap == MapDataInit /\ DatasetAtRest /\ GenAtRest

SpecMapAxis == InitMap /\ [][MapNext]_vars

\* Conversions of the units of the axes of a Data object, in any sequence.
InitConvert == ConvertDataInit /\ DatasetAtRest /\ GenAtRest

SpecConvert == InitConvert /\ [][ConvertNext]_vars

\* join of one or two Data objects.
\* The objects that are split and chopped: one of one axis and one of two.
GivenDataInit ==
    /\ data \in {NewData(<< <<0, 1, 2>> >>), NewData(<< <<0, 1>>, <<0, 1>> >>)}
    /\ args = NoArgs
    /\ outs = <<>>
    /\ status = "idle"

\* The positions that the objects given are split at.
GivenPositions == {<<0>>, <<1>>, <<0, 1>>}

GivenSplitNext ==
    \E axis \in AxisArgs, positions \in GivenPositions,
       direction \in {"below", "above"} :
        Split(axis, positions, "same", direction, FALSE)

InitGiven == GivenDataInit /\ DatasetAtRest /\ GenAtRest

\* split, chop and join, each on objects that it is given.
GivenNext == GivenSplitNext \/ ChopNext \/ JoinNext

SpecGiven == InitGiven /\ [][GivenNext]_vars

InitOffset == OffsetDataInit /\ DatasetAtRest /\ GenAtRest

SpecOffset == InitOffset /\ [][OffsetNext]_vars

InitRevert == RevertDataInit /\ DatasetAtRest /\ GenAtRest

SpecRevert == InitRevert /\ [][RevertNext]_vars

InitRejected == TransposeDataInit /\ DatasetAtRest /\ GenAtRest

SpecRejected == InitRejected /\ [][RejectedNext]_vars

InitJoin == DataAtRest /\ DatasetAtRest /\ GenAtRest

SpecJoin == InitJoin /\ [][JoinNext]_vars

\* ------------------------------------------------------------- properties

\* The elements of an array.
Contents(a) == {a[idx] : idx \in DOMAIN a}

\* How many of the slice tuples in ss select the index idx.
TimesSelected(idx, ss, sh) ==
    Cardinality({k \in 1..Len(ss) : idx \in Selected(ss[k], sh)})

\* C1: the slice tuples slices() yields select every index of the shape
\* exactly once: no index is selected by two of them and, when the generator
\* is exhausted, every index is selected by one.  (A slice selects what
\* Python's slice.indices gives for the dimension's length.)
C1_SlicesCoverExactlyOnce ==
    \A idx \in IndexSet(gen.shape) :
        /\ TimesSelected(idx, gen.yielded, gen.shape) <= 1
        /\ Exhausted => TimesSelected(idx, gen.yielded, gen.shape) = 1

\* A dataset of two dimensions, unevenly chunked along both, all yielded.
C1_Witness ==
    /\ Exhausted
    /\ Len(gen.shape) = 2
    /\ gen.chunks # NoChunks
    /\ \A d \in 1..2 : gen.shape[d] % gen.chunks[d] # 0
    /\ Len(gen.yielded) = 4

\* C2: every slice slices() yields on a chunked dataset has
\* 0 <= start < stop <= shape[d], and stop - start is the chunk length,
\* except that the last chunk along a dimension may be shorter.
C2_SliceBoundsWithinShape ==
    gen.chunks # NoChunks =>
        \A k \in 1..Len(gen.yielded) : \A d \in 1..Len(gen.shape) :
            LET sl == gen.yielded[k][d]
            IN  /\ 0 <= sl.start
                /\ sl.start < sl.stop
                /\ sl.stop <= gen.shape[d]
                /\ \/ sl.stop - sl.start = gen.chunks[d]
                   \/ /\ sl.stop = gen.shape[d]
                      /\ sl.stop - sl.start < gen.chunks[d]

\* C3: a cached 'max' or 'min' equals the NaN-ignoring maximum or minimum
\* of what the array holds now.
C3_CacheIsCurrent ==
    /\ "max" \in DOMAIN attrs => attrs["max"] = nanmax(Contents(arr))
    /\ "min" \in DOMAIN attrs => attrs["min"] = nanmin(Contents(arr))

\* The chunks' results in out, taken in the order p.
ValuesInOrder(p) == [k \in 1..Len(out) |-> out[p[k]].val]

Orders == {p \in [1..Len(out) -> 1..Len(out)] :
              \A i, j \in 1..Len(out) : p[i] = p[j] => i = j}

\* C4: max() and min() return the maximum and the minimum of the elements
\* that are not NaN, when there is one, and combining the chunks' results in
\* another order gives the same.
C4_MaxMinIgnoreNaN ==
    /\ (pc = "returned" /\ frame.name = "max" /\ Contents(arr) # {NaN}) =>
           /\ result = nanmax(Contents(arr))
           /\ \A p \in Orders : PyMax(ValuesInOrder(p)) = result
    /\ (pc = "returned" /\ frame.name = "min" /\ Contents(arr) # {NaN}) =>
           /\ result = nanmin(Contents(arr))
           /\ \A p \in Orders : PyMin(ValuesInOrder(p)) = result

\* A step of max(), of min() or of a chunkwise whose function writes nothing.
ReadStep ==
    \/ pc = "chunkwise" /\ ~Writes(func)
    \/ pc = "idle" /\ pc' # "idle" /\ frame'.name \in {"max", "min", "chunkwise"}

\* C5: a cached value stays in the cache until the array is written: no
\* step of max(), of min() or of a chunkwise that writes nothing removes a
\* cached 'min' or 'max'.
C5_CacheKeptUntilWrite ==
    [][ReadStep => (DOMAIN attrs \subseteq DOMAIN attrs')]_vars

\* C6: chunkwise has called its function once per slice tuple of slices()
\* when its loop is over, and its mapping has one entry per chunk, under the
\* integer index of the chunk's lower corner (zeros when there is one chunk).
C6_OneEntryPerCorner ==
    LoopDone =>
        LET ss == slices(shape, chunks)
        IN  /\ ncalls = Len(ss)
            /\ Len(out) = Len(ss)
            /\ \A k \in 1..Len(ss) :
                   \E e \in 1..Len(out) : out[e].key = Corner(ss[k], shape)

\* What a chunk function that writes leaves in the element at idx of an
\* array a, were it applied to the whole array at once.
WholeArrayElem(f, a, idx) ==
    CASE f.name \in BinOps ->
           Apply(f.name, a[idx], IF f.isArray THEN f.value[idx] ELSE f.value)
      [] f.name = "clip" -> ClipElem(a[idx], f.min, f.max, f.replace)
      [] f.name = "log" -> LogElem(a[idx], f.base, f.floor)
      [] f.name = "symmetric_root" -> RootElem(a[idx], f.root)

\* The indices in the chunks that chunkwise's loop has been through.
Processed ==
    LET ss == slices(shape, chunks)
    IN  UNION {Selected(ss[k], shape) : k \in (1..Len(ss)) \ pending}

\* Every processed element holds the function's result on what the element
\* held when the method was called, every other element what it held then.
ChunksDoneOnce ==
    LET done == Processed
    IN  \A idx \in DOMAIN arr :
            arr[idx] = IF idx \in done
                       THEN WholeArrayElem(func, pre, idx)
                       ELSE pre[idx]

\* The array after func has been applied to the chunks in the given order
\* of their positions in slices().
RECURSIVE AfterChunks(_, _, _)
AfterChunks(f, a, order) ==
    IF order = <<>> THEN a
    ELSE AfterChunks(f, AfterChunk(f, a, slices(shape, chunks)[Head(order)]),
                     Tail(order))

\* The orders in which chunkwise could take the chunks.
ChunkOrders ==
    LET n == Len(slices(shape, chunks))
    IN  {p \in [1..n -> 1..n] : \A i, j \in 1..n : p[i] = p[j] => i = j}

\* C7: whatever the order of the chunks, a chunk function that writes its
\* own chunk leaves the array the same, the chunks' results combine to the
\* same maximum or minimum, and max() and min() write the cache only when
\* every chunk has been through.
C7_OrderIndependent ==
    /\ (pc = "chunkwise" /\ ncalls = 0 /\ Writes(func)) =>
           \A p \in ChunkOrders :
               AfterChunks(func, arr, p)
                   = [idx \in DOMAIN arr |-> WholeArrayElem(func, arr, idx)]
    /\ (LoopDone /\ func.name = "nanmax") =>
           \A p \in Orders :
               PyMax(ValuesInOrder(p)) = PyMax(OrderedDictValues(out))
    /\ (LoopDone /\ func.name = "nanmin") =>
           \A p \in Orders :
               PyMin(ValuesInOrder(p)) = PyMin(OrderedDictValues(out))
    /\ (pc = "chunkwise" /\ frame.name = "max") => "max" \notin DOMAIN attrs
    /\ (pc = "chunkwise" /\ frame.name = "min") => "min" \notin DOMAIN attrs

\* C8: an in-place operator leaves in every element the operator's result on
\* what the element held and the operand (the number, or the operand's
\* element at the same index), applied once: while the loop runs this holds
\* of the chunks it has been through, and the others are untouched.
C8_InPlaceIsElementwise ==
    (pc \in {"chunkwise", "returned"} /\ func.name \in BinOps) => ChunksDoneOnce

\* An array operand has been added to a dataset of several chunks that are
\* not all of the same size.
C8_Witness ==
    /\ pc = "returned"
    /\ frame.name = "isub"
    /\ func.isArray
    /\ shape = <<3>>
    /\ chunks = <<2>>
    /\ arr # pre

\* The points a piece holds along the axis that was split: the points of
\* the axis, or the point of the constant the axis became.
PiecePoints(piece, name) ==
    IF name \in Range(piece.axis_names)
    THEN piece.axes[CHOOSE k \in 1..Len(piece.axes) :
                        piece.axes[k].name = name].points
    ELSE piece.constants[CHOOSE k \in 1..Len(piece.constants) :
                             piece.constants[k].name = name].points

\* The points of the pieces split returned, piece by piece.
OutsPoints ==
    [i \in 1..Len(outs) |->
        PiecePoints(outs[i], data.axis_names[args.axis_index + 1])]

RECURSIVE Concat(_)
Concat(seqs) ==
    IF seqs = <<>> THEN <<>> ELSE Head(seqs) \o Concat(Tail(seqs))

\* C9: splitting the axis with points 0, 1, 2, 3, 4, 5 at position 3 gives
\* the pieces 0, 1, 2, 3 and 4, 5 with direction 'below' and the pieces
\* 0, 1, 2 and 3, 4, 5 with direction 'above'.
C9_SplitAtThree ==
    (/\ status = "returned"
     /\ data.axes[args.axis_index + 1].points = <<0, 1, 2, 3, 4, 5>>
     /\ args.positions = <<3>>) =>
        /\ args.direction = "below" =>
               OutsPoints = << <<0, 1, 2, 3>>, <<4, 5>> >>
        /\ args.direction = "above" =>
               OutsPoints = << <<0, 1, 2>>, <<3, 4, 5>> >>

\* C10: the pieces split returns hold, one after the other, every point of
\* the axis once and in the axis' order, so that their lengths along the
\* axis sum to the length of the axis.
C10_SplitPartitionsAxis ==
    status = "returned" =>
        Concat(OutsPoints) = data.axes[args.axis_index + 1].points

\* The points of the pieces of a split of the data along the axis.
PointsOfPieces(d, axis_index, positions, direction) ==
    LET pieces == Pieces(d, axis_index, positions, direction)
    IN  [i \in 1..Len(pieces) |-> pieces[i].axes[axis_index + 1].points]

\* C11: positions given to split in units other than the axis' are converted
\* to the axis' units before the nearest points are looked up: the pieces
\* are those of a split at the converted positions.
C11_SplitConvertsPositions ==
    (status = "returned" /\ args.units # "same") =>
        LET axis == data.axes[args.axis_index + 1]
            converted == [p \in 1..Len(args.positions) |->
                             converter(args.positions[p], args.units,
                                       axis.units)]
        IN  OutsPoints = PointsOfPieces(data, args.axis_index, converted,
                                        args.direction)

\* A sequence back to front.
Reverse(seq) == [k \in 1..Len(seq) |-> seq[Len(seq) + 1 - k]]

\* The point of the axis nearest to the position.
NearestPoint(points, position) ==
    points[argmin([k \in 1..Len(points) |-> Abs(points[k] - position)]) + 1]

\* C12: on a descending axis split at one position, the point split at is
\* in the piece of the points below it with direction 'below' and in the
\* piece of the points above it with direction 'above', and the pieces hold
\* the points they hold when the same axis is stored ascending.
C12_DescendingSplitByValue ==
    LET points == data.axes[args.axis_index + 1].points
    IN  (/\ status = "returned"
         /\ args.units = "same"
         /\ Len(args.positions) = 1
         /\ points[Len(points)] < points[1]) =>
            LET b == NearestPoint(points, args.positions[1])
                ascending == [data EXCEPT
                    !.axes[args.axis_index + 1].points = Reverse(@)]
                stored == PointsOfPieces(ascending, args.axis_index,
                                         args.positions, args.direction)
            IN  /\ \E i \in 1..Len(outs) :
                       /\ b \in Range(OutsPoints[i])
                       /\ args.direction = "below" =>
                              \A x \in Range(OutsPoints[i]) : x <= b
                       /\ args.direction = "above" =>
                              \A x \in Range(OutsPoints[i]) : x >= b
                /\ {Range(OutsPoints[i]) : i \in 1..Len(outs)}
                       = {Range(stored[i]) : i \in 1..Len(stored)}

\* The index of the axis point nearest to each position.
FoundIndices(points, positions) ==
    [p \in 1..Len(positions) |->
        argmin([k \in 1..Len(points) |-> Abs(points[k] - positions[p])])]

\* The permutations of 1..n.
OrdersOf(n) ==
    {p \in [1..n -> 1..n] : \A i, j \in 1..n : p[i] = p[j] => i = j}

\* Whether the points (of an axis of distinct points) come in the axis'
\* order.
InAxisOrder(seq, points) ==
    \A i, j \in 1..Len(seq) :
        i < j => (CHOOSE k \in 1..Len(points) : points[k] = seq[i])
                     < (CHOOSE k \in 1..Len(points) : points[k] = seq[j])

\* C13: when positions resolve to the same index of the axis, split does
\* not fail and returns one piece more than there are distinct indices, the
\* pieces in the order of the axis, and the same pieces for the positions in
\* any order.  (Stated for an ascending axis split 'below' at indices that
\* are at least two apart and neither the first nor the last, where no
\* piece is empty.)
C13_DuplicatePositions ==
    LET points == data.axes[args.axis_index + 1].points
        found == FoundIndices(points, args.positions)
        distinct == Cardinality(Range(found))
    IN  (/\ status # "idle"
         /\ distinct < Len(found)
         /\ args.direction = "below"
         /\ points[1] < points[Len(points)]
         /\ \A i \in Range(found) : i >= 1 /\ i <= Len(points) - 2
         /\ \A i, j \in Range(found) : i = j \/ Abs(i - j) >= 2) =>
            /\ status = "returned"
            /\ Len(outs) = distinct + 1
            /\ InAxisOrder(Concat(OutsPoints), points)
            /\ \A p \in OrdersOf(Len(args.positions)) :
                   PointsOfPieces(data, args.axis_index,
                       [k \in 1..Len(args.positions) |-> args.positions[p[k]]],
                       args.direction) = OutsPoints

\* C14: a piece with one point left along the split axis has lost the axis
\* to its constants and its channels that one dimension: the other axes are
\* those of the data, in their order, and every channel has one dimension
\* per axis, of the axis' length.
C14_OnePointBecomesConstant ==
    status = "returned" =>
        LET ai == args.axis_index
            pieces == Pieces(data, ai, args.positions, args.direction)
        IN  \A i \in 1..Len(outs) :
                Len(pieces[i].axes[ai + 1].points) = 1 =>
                    /\ outs[i].axes = Popped(data.axes, ai)
                    /\ outs[i].axis_names = Popped(data.axis_names, ai)
                    /\ outs[i].constants
                           = Append(data.constants, pieces[i].axes[ai + 1])
                    /\ \A c \in 1..Len(outs[i].channels) :
                           outs[i].channels[c].values.shape
                               = [k \in 1..Len(outs[i].axes) |->
                                     Len(outs[i].axes[k].points)]

\* The first index (from 0) of a point nearest to val.
FirstNearest(points, val) ==
    CHOOSE j \in 0..(Len(points) - 1) :
        /\ \A k \in 1..Len(points) :
               Abs(points[j + 1] - val) <= Abs(points[k] - val)
        /\ \A k \in 1..j : Abs(points[k] - val) > Abs(points[j + 1] - val)

\* The index (from 0) an output of chop pins the axis at: that of the point
\* its constant of the axis' name holds (-1: it has no such constant).
PinnedAt(o, axis) ==
    IF \E c \in 1..Len(o.constants), j \in 1..Len(axis.points) :
           o.constants[c].name = axis.name
               /\ o.constants[c].points = axis.points[j]
    THEN (CHOOSE j \in 1..Len(axis.points) :
              \E c \in 1..Len(o.constants) :
                  o.constants[c].name = axis.name
                      /\ o.constants[c].points = axis.points[j]) - 1
    ELSE -1

\* The index into the parent's channels of the element at index i of an
\* output of chop: the kept dimensions from i, the others as pinned.
ParentIndex(o, kept, i) ==
    [d \in 1..Len(data.axes) |->
        IF data.axes[d].name \in Range(kept)
        THEN i[CHOOSE k \in 1..Len(kept) : kept[k] = data.axes[d].name]
        ELSE PinnedAt(o, data.axes[d])]

C16_ChopRejectsBadAxes ==
    (/\ status # "idle"
     /\ args.name = "chop"
     /\ LET kept == ChopNames(data, args.axes_args)
        IN  \/ ~Unique(kept)
            \/ Range(kept) \cap DOMAIN args.at # {}) =>
        status = "raised"

\* C17: constructing a Data object in which a name occurs twice among the
\* names of the axes, channels and constants raises an error, and no
\* object with names set and shape unset is left behind.
C17_DuplicateNamesRaise ==
    (/\ status # "idle"
     /\ args.name = "Data"
     /\ ~Unique(args.axis_names \o args.channel_names
                \o args.constant_names)) =>
        /\ status = "raised"
        /\ data.shape # Unset

\* Twice the area under y over x by the trapezoidal rule, from point k on.
RECURSIVE TwiceArea(_, _, _)
TwiceArea(y, x, k) ==
    IF k >= Len(y) THEN 0
    ELSE (x[k + 1] - x[k]) * (y[k] + y[k + 1]) + TwiceArea(y, x, k + 1)

\* Whether every method of a call of collapse is the integral.
Integrating ==
    /\ args.name = "collapse"
    /\ status = "returned"
    /\ \A c \in 1..Len(args.before.channels) :
           methods(args.before, args.method)[c] \in {"int", "integrate"}

\* C18: collapse(axis, 'integrate') leaves in each channel the trapezoidal
\* integral of its values along the axis over the points of the axis,
\* removes the axis from axes and axis_names, leaves each channel one
\* dimension less, and zmin and zmax the smallest and largest of the new
\* values that are not NaN.
C18_CollapseIntegrates ==
    Integrating =>
        LET before == args.before
            k == AxisIndex(before, args.axis)
            x == before.axes[k + 1].points
        IN  /\ data.axes = Popped(before.axes, k)
            /\ data.axis_names = Popped(before.axis_names, k)
            /\ Len(data.channels) = Len(before.channels)
            /\ \A c \in 1..Len(before.channels) :
                   LET old == before.channels[c].values
                       new == data.channels[c].values
                   IN  /\ Len(new.shape) = Len(old.shape) - 1
                       /\ new.shape = Popped(old.shape, k)
                       /\ \A idx \in IndexSet(new.shape) :
                              LET y == Along(old, k, idx)
                              IN  IF Len(y) >= 2 /\ NaN \in Range(y)
                                  THEN new.elems[idx] = NaN
                                  ELSE 2 * new.elems[idx] = TwiceArea(y, x, 1)
                       /\ data.channels[c].zmin = nanmin(ArrayElements(new))
                       /\ data.channels[c].zmax = nanmax(ArrayElements(new))

\* The values 1, 1, 1 over the points 0, 1, 2 have been integrated to 2.
C18_Witness ==
    /\ Integrating
    /\ args.before.axes[1].points = <<0, 1, 2>>
    /\ args.before.channels[1].values.elems =
           [idx \in IndexSet(<<3>>) |-> 1]
    /\ data.channels[1].values.elems[<<>>] = 2
    /\ data.axes = <<>>

\* C19: collapse with a list of methods that is not as long as the list of
\* channels, or with a method that is not recognized, raises an error and
\* leaves the object as it was.
C19_InvalidMethodRaises ==
    (/\ args.name = "collapse"
     /\ \/ /\ "list" \in DOMAIN args.method
           /\ Len(args.method.list) # Len(args.before.channels)
        \/ \E m \in Range(methods(args.before, args.method)) :
               m \notin {"int", "integrate", "sum", "max", "maximum", "min",
                         "minimum", "ave", "average"}) =>
        /\ status = "raised"
        /\ data = args.before
        /\ \A c \in 1..Len(data.channels) :
               Len(data.channels[c].values.shape) = Len(data.axes)

\* The order that undoes an order.
InverseOrder(order) ==
    [j \in 1..Len(order) |->
        (CHOOSE k \in 1..Len(order) : order[k] = j - 1) - 1]

\* Whether the last two calls are transpose with an order and with the
\* order that undoes it, or transpose without an order twice.
TransposedBack ==
    /\ args.name = "transpose"
    /\ args.prior.name = "transpose"
    /\ IF args.prior.axes.given
       THEN /\ args.axes.given
            /\ args.axes.order = InverseOrder(args.prior.axes.order)
       ELSE ~args.axes.given

\* C20: transpose with an order and then with the order that undoes it
\* leaves the axes, axis_names, shape and the values of every channel as
\* they were; transpose without an order reverses the axes, and twice
\* leaves everything as it was.
C20_TransposeRoundTrip ==
    /\ TransposedBack =>
           LET first == args.prior.before
           IN  /\ data.axes = first.axes
               /\ data.axis_names = first.axis_names
               /\ data.shape = first.shape
               /\ \A c \in 1..Len(first.channels) :
                      data.channels[c].values = first.channels[c].values
    /\ (args.name = "transpose" /\ ~args.axes.given) =>
           /\ data.axes = Reverse(args.before.axes)
           /\ data.axis_names = Reverse(args.before.axis_names)
           /\ data.shape = Reverse(args.before.shape)
           /\ \A c \in 1..Len(data.channels) :
                  LET old == args.before.channels[c].values
                      new == data.channels[c].values
                  IN  /\ new.shape = Reverse(old.shape)
                      /\ \A idx \in IndexSet(new.shape) :
                             new.elems[idx] = old.elems[Reverse(idx)]

\* An order of three axes of different lengths that does not undo itself
\* has been undone.
C20_Witness ==
    /\ TransposedBack
    /\ args.prior.axes.given
    /\ args.prior.axes.order = <<1, 2, 0>>
    /\ args.prior.before.shape = <<1, 2, 3>>
    /\ args.before.shape = <<2, 3, 1>>
    /\ Len(data.channels) = 2

\* Whether the last call is map_axis on an axis the object has.
Mapping ==
    /\ args.name = "map_axis"
    /\ ~NoSuchAxis(args.before, args.axis)

\* The points given to the last call of map_axis, in the units of the axis.
GivenPoints ==
    MapPoints(args.before, AxisIndex(args.before, args.axis), args.points,
              args.input_units)

\* Whether a point lies below or above every point of the mapped axis.
Outside(x) ==
    LET grid == args.before.axes[AxisIndex(args.before, args.axis) + 1].points
    IN  \/ \A i \in 1..Len(grid) : x < grid[i]
        \/ \A i \in 1..Len(grid) : x > grid[i]

\* C21: map_axis raises no error for a new point outside the points of the
\* mapped axis and leaves NaN in every channel at that point, on objects of
\* one axis as on others.
C21_MapAxisOutsideIsNaN ==
    Mapping =>
        LET k == AxisIndex(args.before, args.axis)
        IN  \A j \in 1..Len(GivenPoints) :
                Outside(GivenPoints[j]) =>
                    /\ status = "returned"
                    /\ \A c \in 1..Len(data.channels) :
                           LET new == data.channels[c].values
                           IN  \A idx \in IndexSet(new.shape) :
                                   idx[k + 1] = j - 1 => new.elems[idx] = NaN

\* Whether an array holds a NaN.
HoldsNaN(values) == \E idx \in IndexSet(values.shape) : values.elems[idx] = NaN

\* The axes other than the mapped or flipped one are as they were.
OtherAxesKept(k) ==
    /\ Len(data.axes) = Len(args.before.axes)
    /\ \A o \in 1..Len(data.axes) :
           o # k + 1 => data.axes[o] = args.before.axes[o]

\* After map_axis every element at a new point that is a point the axis had
\* is the element that was at these coordinates, or NaN when the channel
\* held a NaN.
MappedInPlace(k) ==
    LET grid == args.before.axes[k + 1].points
    IN  \A c \in 1..Len(data.channels) :
            LET old == args.before.channels[c].values
                new == data.channels[c].values
            IN  \A idx \in IndexSet(new.shape) :
                    \A a \in 1..Len(grid) :
                        grid[a] = GivenPoints[idx[k + 1] + 1] =>
                            LET was == old.elems[[idx EXCEPT ![k + 1] = a - 1]]
                            IN  IF HoldsNaN(old)
                                THEN new.elems[idx] \in {was, NaN}
                                ELSE new.elems[idx] = was

\* After flip the points of the axis and every channel along it are
\* reversed.
Flipped(k) ==
    /\ data.axes[k + 1].points = Reverse(args.before.axes[k + 1].points)
    /\ \A c \in 1..Len(data.channels) :
           LET old == args.before.channels[c].values
               new == data.channels[c].values
           IN  /\ new.shape = old.shape
               /\ \A idx \in IndexSet(new.shape) :
                      new.elems[idx] =
                          old.elems[[idx EXCEPT ![k + 1] =
                                        old.shape[k + 1] - 1 - @]]

\* Whether the last call is flip on an axis the object has.
Flipping == args.name = "flip" /\ status = "returned"

\* C22: map_axis leaves every other axis with the points it had, in their
\* order, and every element at the coordinates it had on them; flip
\* reverses the points of the axis and the channels together, and twice
\* leaves the object as it was.
C22_OtherAxesKept ==
    /\ (Mapping /\ status = "returned") =>
           LET k == AxisIndex(args.before, args.axis)
           IN  OtherAxesKept(k) /\ MappedInPlace(k)
    /\ Flipping =>
           LET k == AxisIndex(args.before, args.axis)
           IN  /\ OtherAxesKept(k)
               /\ Flipped(k)
               /\ (/\ args.prior.name = "flip"
                   /\ AxisIndex(args.prior.before, args.prior.axis) = k) =>
                      data = args.prior.before

\* An axis of an object of two axes, the other one descending, has been
\* mapped to points of which one is a point it had.
C22_Witness ==
    /\ Mapping
    /\ status = "returned"
    /\ args.axis = [name |-> "w1"]
    /\ Len(args.before.axes) = 2
    /\ Descending(args.before.axes[2].points)
    /\ Descending(data.axes[2].points)
    /\ ~HoldsNaN(args.before.channels[1].values)
    /\ \E j \in 1..Len(GivenPoints) :
           GivenPoints[j] \in Range(args.before.axes[1].points)

\* Whether the last call is convert on an axis, to units of another kind.
ConvertingAcrossKinds ==
    /\ args.name = "Axis.convert"
    /\ units_kind(args.destination_units) #
           args.before.axes[args.axis + 1].units_kind

\* C23: Axis.convert to units of another kind than the axis has raises and
\* leaves the units and the points of the axis as they were.
C23_ConvertAcrossKindsRaises ==
    ConvertingAcrossKinds =>
        /\ status = "raised"
        /\ data.axes[args.axis + 1].units =
               args.before.axes[args.axis + 1].units
        /\ data.axes[args.axis + 1].points =
               args.before.axes[args.axis + 1].points

\* An axis of time of two points has been asked for nm.
C23_Witness ==
    /\ ConvertingAcrossKinds
    /\ args.destination_units = "nm"
    /\ args.before.axes[args.axis + 1].units = "ps"
    /\ Len(args.before.axes[args.axis + 1].points) = 2
    /\ status = "raised"

\* Whether the last two calls convert one axis to other units of its kind
\* and back to the units it had.
ConvertedBack ==
    /\ args.name = "Axis.convert"
    /\ status = "returned"
    /\ args.prior.name = "Axis.convert"
    /\ args.prior.axis = args.axis
    /\ args.destination_units = args.prior.before.axes[args.axis + 1].units
    /\ args.before.axes[args.axis + 1].units # args.destination_units

\* Whether the last two calls convert the object to units and back to the
\* units that the axis k had.
AllConvertedBack(k) ==
    /\ args.name = "convert"
    /\ args.prior.name = "convert"
    /\ k <= Len(args.prior.before.axes)
    /\ args.destination_units = args.prior.before.axes[k].units
    /\ args.before.axes[k].units # args.destination_units

\* C24: an axis converted to other units of its kind and back has the
\* points and the units it had, and the kind of units it had throughout.
C24_ConvertRoundTrip ==
    /\ ConvertedBack =>
           LET first == args.prior.before.axes[args.axis + 1]
               now == data.axes[args.axis + 1]
           IN  /\ now.points = first.points
               /\ now.units = first.units
               /\ now.units_kind = first.units_kind
               /\ args.before.axes[args.axis + 1].units_kind = first.units_kind
               /\ units_kind(now.units) = now.units_kind
    /\ \A k \in 1..2 :
           AllConvertedBack(k) =>
               /\ data.axes[k].points = args.prior.before.axes[k].points
               /\ data.axes[k].units = args.prior.before.axes[k].units
               /\ data.axes[k].units_kind = args.prior.before.axes[k].units_kind

\* Two wavelengths in nm have been converted to wavenumbers and back.
C24_Witness ==
    /\ ConvertedBack
    /\ args.destination_units = "nm"
    /\ args.before.axes[args.axis + 1].units = "wn"
    /\ data.axes[args.axis + 1].points = <<400, 800>>
    /\ args.before.axes[args.axis + 1].points = <<25000, 12500>>

\* Whether the last call is join by the method 'first'.
JoiningFirst == args.name = "join" /\ args.method = "first"

\* Whether a coordinate lies below or above every point of an axis.
Beyond(points, x) ==
    \/ \A i \in 1..Len(points) : x < points[i]
    \/ \A i \in 1..Len(points) : x > points[i]

\* Whether every coordinate is a point of its axis of d or lies beyond the
\* axis: the value of d there takes no interpolation.
OnOrBeyond(d, xs) ==
    \A k \in 1..Len(xs) :
        xs[k] \in Range(d.axes[k].points) \/ Beyond(d.axes[k].points, xs[k])

\* The value of a channel of d at coordinates that are on or beyond its
\* axes: NaN beyond, and on them the element at these points.
ValueAt(d, c, xs) ==
    IF \E k \in 1..Len(xs) : Beyond(d.axes[k].points, xs[k]) THEN NaN
    ELSE d.channels[c].values.elems[
             [k \in 1..Len(xs) |->
                 (CHOOSE i \in 1..Len(d.axes[k].points) :
                      d.axes[k].points[i] = xs[k]) - 1]]

\* C25: join by 'first' returns a Data object that holds at every cell the
\* value of the first of the datas that is not NaN there, NaN if there is
\* none; one data that lies on the joined axes is returned with the values
\* it has.  Stated for the cells that lie on or beyond the axes of every
\* data, and for datas that hold no NaN of their own.
C25_JoinFirst ==
    JoiningFirst =>
        /\ status = "returned"
        /\ Len(outs) = 1
        /\ \A c \in 1..Len(outs[1].channels) :
               LET new == outs[1].channels[c].values
               IN  \A idx \in IndexSet(new.shape) :
                       LET xs == [k \in 1..Len(idx) |->
                                     outs[1].axes[k].points[idx[k] + 1]]
                       IN  (\A i \in 1..Len(args.datas) :
                                /\ OnOrBeyond(args.datas[i], xs)
                                /\ ~HoldsNaN(args.datas[i].channels[c].values)) =>
                               new.elems[idx] =
                                   FirstOf([i \in 1..Len(args.datas) |->
                                               ValueAt(args.datas[i], c, xs)])


\* Whether the names, the shape and the axes of an object agree with its
\* axes, constants and channels.
Consistent(d) ==
    /\ d.axis_names = [k \in 1..Len(d.axes) |-> d.axes[k].name]
    /\ d.constant_names = [k \in 1..Len(d.constants) |-> d.constants[k].name]
    /\ d.channel_names = [k \in 1..Len(d.channels) |-> d.channels[k].name]
    /\ d.shape = d.channels[1].values.shape
    /\ Len(d.axes) = Len(d.channels[1].values.shape)
    /\ \A k \in 1..Len(d.axes) :
           k <= Len(d.shape) => d.shape[k] = Len(d.axes[k].points)

\* C26: after every call the object and every object returned have
\* axis_names, constant_names and channel_names that are the names of the
\* axes, constants and channels in order, a shape that is the shape of the
\* first channel, as many axes as that shape has dimensions, and along every
\* dimension as many elements as the axis has points.
C26_NamesAndShapeCurrent ==
    /\ Consistent(data)
    /\ \A i \in 1..Len(outs) : Consistent(outs[i])


Designated == AxisIndex(args.before, args.offset_axis)

\* C28: after offset the axes have the names and the order they had, and
\* every axis but the one that offset_axis designates, by its name or by
\* its index in the order before the call, has the points it had.
C28_OffsetChangesOffsetAxisOnly ==
    (args.name = "offset" /\ status = "returned") =>
        /\ data.axis_names = args.before.axis_names
        /\ Len(data.axes) = Len(args.before.axes)
        /\ \A k \in 1..Len(data.axes) :
               /\ data.axes[k].name = args.before.axes[k].name
               /\ k # Designated + 1 => data.axes[k] = args.before.axes[k]


\* C29: after revert the object has the axes, with their points and units,
\* the channel values and the shape it had when it was constructed.
C29_RevertRestores ==
    args.name = "revert" =>
        /\ data.axes = args.constructed.axes
        /\ \A c \in 1..Len(data.channels) :
               data.channels[c].values = args.constructed.channels[c].values
        /\ data.shape = args.constructed.shape


\* C30: transpose with an order that is not a permutation of the
\* dimensions, having too few or too many indices or one index twice,
\* raises and leaves the axes, their names, every channel and the shape as
\* they were.
C30_RejectedOrderLeavesObject ==
    (/\ args.name = "transpose"
     /\ args.axes.given
     /\ ~Permutes(args.axes.order, Len(args.before.axes))) =>
        /\ status = "raised"
        /\ data.axes = args.before.axes
        /\ data.axis_names = args.before.axis_names
        /\ data.channels = args.before.channels
        /\ data.shape = args.before.shape

====
